---- MODULE Spec2Model ----
(***************************************************************************)
(* The signal-bus + scheduler core of alive-intelligence-v3:               *)
(*   SignalBus      src/src/core/types.ts:301-410                          *)
(*   Engine         src/src/core/thought-bridge.ts:166-271                 *)
(*   CognitiveLoop  src/src/core/constants.ts:372-517                      *)
(*   SelfStateManager  src/unnamed/part_010:50-255                         *)
(* Everything runs on one JavaScript thread, so every public method is one *)
(* atomic action.  A subscriber's handler is environment code: a           *)
(* subscription carries the kind of handler it was registered with, and    *)
(* flush() runs the handler's effect where the code calls sub.handler.     *)
(***************************************************************************)
EXTENDS Integers, Sequences, FiniteSets, TLC

VARIABLES
    queue,          \* SignalBus.queue: pending signals
    subscriptions,  \* SignalBus.subscriptions: Map in insertion order
    history,        \* SignalBus.history: ring buffer storage
    historyIndex,   \* SignalBus.historyIndex: next slot to overwrite
    signalCounter,  \* module-level signalCounter of createSignalId
    subCounter,     \* number of subscription ids handed out so far
    now,            \* Date.now()
    inbox,          \* Engine.inbox, per engine id
    unsubscribed,   \* the subscription ids unsubscribe() was called with
    recorded,       \* the signals flush() has written to history: id and type
    out,            \* observation of the last call: its name, its return
                    \* value and the handler invocations it made
    engines,        \* CognitiveLoop.engines: the fields of each engine
    registry,       \* the insertion order of CognitiveLoop.engines
    running,        \* CognitiveLoop.running
    rafId,          \* CognitiveLoop.rafId, 0 for null
    rafCounter,     \* the ids requestAnimationFrame has handed out
    hostPending,    \* the frame callbacks the host still has to call
    frameTime,      \* performance.now(), the timestamp passed to loop()
    loopTickCount,  \* CognitiveLoop.tickCount
    frameCounter,   \* CognitiveLoop.frameCounter
    lastActiveSignals, \* CognitiveLoop.lastActiveSignals
    gateway,        \* the fields of the BodyGatewayEngine
    mind,           \* the engines between a text input and the reply: the
                    \* order of their registration and their fields
    applied,        \* every applyShift() the arbiter has made: the target
                    \* before and after it
    proxy,          \* a stream made by createShiftFilteringStream: its
                    \* closure variables, what upstream has sent and what
                    \* the consumer has received
    lastDriveEval,  \* SelfStateManager.lastDriveEval
    frame,          \* observation of the last call on the loop: its name,
                    \* the steps it took, and whether it threw
    current,        \* SelfStateManager.current, in units of 0.0001
    targetState,    \* SelfStateManager.target, in units of 0.0001
    snapshots,      \* the snapshot objects created so far, by reference
    cachedSnapshot, \* SelfStateManager.cachedSnapshot: a reference
    stream,         \* SelfStateManager.stream
    streamArrays,   \* the frozen arrays created so far, by reference
    cachedStream,   \* SelfStateManager.cachedStream: a reference
    streamReads,    \* the references getStream() has returned
    pushed,         \* every entry pushStream() was called with, in order
    driveEvals,     \* every evaluateDrives() call on the store: when it was
                    \* made and the pulses it returned
    lastExternalInput, \* SelfStateManager.lastExternalInput
    settled,        \* update() calls since the last call that wrote target
    selfCalls,      \* calls made on the store
    selfOut,        \* observation of the last call on the store: its name,
                    \* its arguments' dimensions and its return value
    payloads,       \* Signal.payload, by signal id, where a payload matters
    thoughtBridges, \* the ThoughtBridge objects constructed so far
    activeThought,  \* activeInstance of thought-bridge.ts, 0 for null
    bodyBridges,    \* the BodyBridge objects constructed so far
    activeBody,     \* activeInstance of body-bridge.ts, 0 for null
    external,       \* the external calls issued so far: the request, when
                    \* it was issued, and how it ended once it has ended
    polled,         \* every signal pollTasks() of a BodyBridge emitted
    deliveries      \* every invocation of a bridge handler: the signal, the
                    \* time, the calls then in flight, and whether the
                    \* bridge issued a call for it

busVars == <<queue, subscriptions, history, historyIndex, signalCounter,
             subCounter, now, inbox, unsubscribed, recorded, out>>

loopVars == <<engines, registry, running, rafId, rafCounter, hostPending,
              frameTime, loopTickCount, frameCounter, lastActiveSignals,
              gateway, mind, applied, proxy, lastDriveEval, frame>>

selfVars == <<current, targetState, snapshots, cachedSnapshot, stream,
              streamArrays, cachedStream, streamReads, pushed,
              driveEvals, lastExternalInput, settled, selfCalls, selfOut>>

bridgeVars == <<payloads, thoughtBridges, activeThought, bodyBridges, activeBody,
                external, deliveries, polled>>

vars == <<busVars, loopVars, selfVars, bridgeVars>>

----------------------------------------------------------------------------
(* Bounds of the model *)

\* number of signal ids createSignalId may hand out
MaxSignals == 4
\* number of subscriptions ever registered
MaxSubs == 2
\* capacity of the history ring buffer.  constants.ts:200 sets 200; the
\* model runs the same code with a small capacity so that the buffer wraps.
SIGNAL_HISTORY_SIZE == 2
\* a short ttl override passed to emit (the spec's example uses 100)
ShortTtl == 100
\* the clock advances in steps of ClockStep up to MaxNow
ClockStep == 50
MaxNow == 100
\* signals emitted on the bus of SpecTtl, and signals and subscriptions on
\* the bus of SpecRoute
MaxTtlSignals == 2
MaxRouteSignals == 1
MaxRouteSubs == 2
\* signals emitted from outside on the bus of SpecReentrant (its handlers
\* emit the remaining ones, up to MaxSignals)
MaxSeedSignals == 2

\* signals emitted on the bus of SpecLoop; callers other than the loop and
\* its engines emit while fewer than MaxLoopSeeds signals were emitted
MaxLoopSignals == 2
MaxLoopSeeds == 1
\* the host calls the frame callback every FrameStep ms, until MaxFrameTime
FrameStep == 33
MaxFrameTime == 66
\* calls of loop() in SpecLoop
MaxLoopTicks == 3
\* capacity of the consciousness stream.  part_010:47 sets 20; the model
\* runs the same code with a small capacity.
MAX_STREAM_SIZE == 2
\* SpecGateway: signals emitted by callers other than the gateway, and the
\* clock, which moves in steps of the gateway's tick interval
MaxGatewaySignals == 2
GatewayStep == 100
MaxGatewayTime == 300
\* SpecMind: the time between two frames, the latest time at which the user
\* sends the text, the longest an inference call takes, and the clock
MindStep == 100
TextBy == 200
MaxLatency == 200
MaxMindTime == 2000
\* SpecHang: the texts the user sends, and the clock
MaxTexts == 2
MaxHangTime == 1600
\* SpecChain: the calls of loop() that get past the running test
MaxChainTicks == 4
\* SpecHistory: the thoughts of a conversation, and the calls that fail
MaxExchanges == 21
MaxFailures == 1
\* SpecPoll: the polls of a BodyBridge
MaxPolls == 2
\* SpecDefer: the energy of the persisted state that is restored
TiredEnergy == 500
\* SpecProxy: the longest text of one text_delta
MaxChunk == 4
\* SpecDrives: calls on the store, and the clock, which moves in steps of
\* a third of the cooldown
MaxDriveCalls == 5
DriveStep == 1000
MaxDriveTime == 7000
\* SpecBridge, SpecWindow: bridges constructed, thoughts emitted, and the
\* clock, which moves in steps of half the deduplication window
MaxBridges == 2
MaxThoughts == 2
MaxWindowThoughts == 3
\* SpecBody: bridges constructed, intents and status signals emitted
MaxBodyBridges == 1
MaxIntents == 2
MaxStatus == 1
BridgeStep == 2500
MaxBridgeTime == 7500
\* the deadline of an external call (no value is given anywhere)
BridgeDeadline == 5000
\* pushStream() calls in SpecStream: more than the capacity
MaxPushes == 4
\* deltas and values passed to the store: beyond the width of an interval,
\* and within it
BigDelta == 30000
SmallDelta == 2500
\* calls on the store in SpecSelf
MaxSelfCalls == 4
\* SpecSettle: calls that set a target, then update() calls
MaxSettleTargets == 2
MaxSettleUpdates == 24
\* update() calls after which a dimension with a fixed target is settled
ConvergeWithin == 18
\* SpecGate: the host calls back after one or two GateStep ms, until
\* MaxGateTime, and loop() is called MaxGateTicks times at most
GateStep == 8
MaxGateTime == 64
MaxGateTicks == 6

(* Program constants *)

\* constants.ts:56 and constants.ts:88
TICK_RATE_SAFETY == 16
TICK_RATE_EXPRESSION == 33
\* constants.ts:53, 57, 77, 78, 79
TICK_RATE_TEXT_INPUT == 16
TICK_RATE_PERCEPTION == 200
TICK_RATE_ATTENTION == 50
TICK_RATE_BINDER == 100
TICK_RATE_ARBITER == 100
\* constants.ts:384
notifyEveryN == 3
\* DRIVE_EVAL_COOLDOWN of the self-state store
DRIVE_EVAL_COOLDOWN == 3000

\* The self state is kept in units of 0.0001: 1 is ONE, the 0.001 of
\* update() is EPSILON, STATE_DAMPING = 0.35 is DAMPING_PERCENT / 100.
ONE == 10000
EPSILON == 10
DAMPING_PERCENT == 35
\* update(): the amplitude 0.002 of the breathing term, the rate 0.001 of
\* the decay of arousal toward 0.3 and of social toward 0.4 (as a divisor),
\* the 0.0001 by which energy depletes
BREATH_AMPLITUDE == 20
DECAY_DIVISOR == 1000
AROUSAL_REST == 3000
SOCIAL_REST == 4000
ENERGY_DEPLETION == 1
\* evaluateDrives(): the thresholds, and the quiet time of 'reach-out'
EXPLORE_ABOVE == 7000
REST_BELOW == 3000
PROCESS_ABOVE == 6000
RUMINATE_BELOW == 2000
APPRECIATE_ABOVE == 5000
REACH_OUT_ABOVE == 6000
REACH_OUT_QUIET == 15000

\* constants.ts:197
SIGNAL_TTL == 10000
\* thought-bridge.ts:67
DEDUP_WINDOW == 5000
\* looksLikeShiftStarting: text.slice(-30)
TAIL_LENGTH == 30

\* if (this.conversationHistory.length > 40) ... slice(-40)
HISTORY_LIMIT == 40
\* constants.ts:175-181
PRIORITY_CRITICAL == 100
PRIORITY_HIGH == 75
PRIORITY_MEDIUM == 50
PRIORITY_LOW == 25
PRIORITY_IDLE == 10

Priorities == {PRIORITY_IDLE, PRIORITY_MEDIUM}
Ttls == {ShortTtl, SIGNAL_TTL}
EngineIds == {"arbiter", "voice", "safety", "expression", "growth",
              "body-gateway", "text-input", "perception", "attention", "binder"}
\* the engines that subscribe to the bus of SpecRoute
RouteEngines == {"arbiter", "voice"}
\* the engines registered with the loop of SpecLoop
LoopEngines == {"safety", "expression"}
SignalTypes == {"thought", "voice-output"}

\* Signal.target: absent, one engine id, or a list of engine ids
NoTarget == [kind |-> "none", ids |-> {}]
OneTarget(e) == [kind |-> "one", ids |-> {e}]
ListTarget(S) == [kind |-> "list", ids |-> S]
Targets == {NoTarget, OneTarget("arbiter"), ListTarget({}),
            ListTarget({"arbiter", "voice"})}

\* what a registered handler does when it is invoked
HandlerKinds == {"noop", "throw", "emit", "unsub", "inbox"}

----------------------------------------------------------------------------
(* Helpers on sequences *)

SeqRange(s) == {s[i] : i \in DOMAIN s}

RECURSIVE SelectSeqBy(_, _)
\* Array.prototype.filter with the predicate given as the set of kept elements
SelectSeqBy(s, keep) ==
    IF s = <<>> THEN <<>>
    ELSE IF Head(s) \in keep THEN <<Head(s)>> \o SelectSeqBy(Tail(s), keep)
         ELSE SelectSeqBy(Tail(s), keep)

\* findIndex(s => s.priority <= p): the new signal overtakes its equals
FindIndexLowerOrEqual(q, p) ==
    IF \E i \in DOMAIN q : q[i].priority <= p
    THEN CHOOSE i \in DOMAIN q :
            /\ q[i].priority <= p
            /\ \A j \in 1..(i - 1) : ~(q[j].priority <= p)
    ELSE 0

\* Array.prototype.findIndex(s => s.priority < p), 1-based, 0 for -1
FindIndexLower(q, p) ==
    IF \E i \in DOMAIN q : q[i].priority < p
    THEN CHOOSE i \in DOMAIN q :
            /\ q[i].priority < p
            /\ \A j \in 1..(i - 1) : ~(q[j].priority < p)
    ELSE 0

\* an emit() that always pushes at the end of the queue
PushAtEnd(q, full) == Append(q, full)

\* Array.prototype.splice(idx, 0, x) / push(x)
InsertSorted(q, full) ==
    LET idx == FindIndexLower(q, full.priority)
    IN IF idx = 0 THEN Append(q, full)
       ELSE SubSeq(q, 1, idx - 1) \o <<full>> \o SubSeq(q, idx, Len(q))

----------------------------------------------------------------------------
(* SignalBus *)

\* the signal emit() builds; the id is the counter value of createSignalId
MakeSignal(n, type, source, target, priority, ts, ttl) ==
    [id |-> n, type |-> type, source |-> source, target |-> target,
     priority |-> priority, timestamp |-> ts, ttl |-> ttl]

\* the bus as one value, threaded through a call; processed and calls are
\* what the call returns and which handlers it invokes, raised says that an
\* exception is propagating out of it
BusValue ==
    [queue |-> queue, subscriptions |-> subscriptions, history |-> history,
     historyIndex |-> historyIndex, signalCounter |-> signalCounter,
     subCounter |-> subCounter, inbox |-> inbox, unsubscribed |-> unsubscribed,
     recorded |-> recorded, processed |-> <<>>, calls |-> <<>>, raised |-> FALSE]

\* an emit() that also hands the new signal to every subscriber at once
BusEmitEager(b, type, source, target, priority, ts, ttl) ==
    LET full == MakeSignal(b.signalCounter + 1, type, source, target,
                           priority, ts, ttl)
    IN [b EXCEPT !.signalCounter = b.signalCounter + 1,
                 !.queue = InsertSorted(b.queue, full),
                 !.calls = [i \in DOMAIN b.subscriptions |->
                              [sig |-> full.id, sub |-> b.subscriptions[i].id,
                               threw |-> FALSE]]]

\* emit() on a bus value
BusEmit(b, type, source, target, priority, ts, ttl) ==
    LET full == MakeSignal(b.signalCounter + 1, type, source, target,
                           priority, ts, ttl)
    IN [b EXCEPT !.signalCounter = b.signalCounter + 1,
                 !.queue = InsertSorted(b.queue, full)]

\* this.subscriptions.delete(subscriptionId)
MapDelete(subs, subscriptionId) ==
    SelectSeqBy(subs, {s \in SeqRange(subs) : s.id # subscriptionId})

\* unsubscribe() on a bus value; unsubscribed notes that the call was made
\* with an id the bus has handed out (an id above subCounter stands for a
\* string that is no subscription id so far)
BusUnsubscribe(b, subscriptionId) ==
    [b EXCEPT !.subscriptions = MapDelete(b.subscriptions, subscriptionId),
              !.unsubscribed = IF subscriptionId <= b.subCounter
                               THEN @ \cup {subscriptionId} ELSE @]

\* the ring-buffer write of flush()
RecordHistory(b, signal) ==
    IF Len(b.history) < SIGNAL_HISTORY_SIZE
    THEN [b EXCEPT !.history = Append(b.history, signal),
                   !.recorded = @ \cup {[id |-> signal.id, type |-> signal.type]}]
    ELSE [b EXCEPT !.history[b.historyIndex + 1] = signal,
                   !.historyIndex = (b.historyIndex + 1) % SIGNAL_HISTORY_SIZE,
                   !.recorded = @ \cup {[id |-> signal.id, type |-> signal.type]}]

\* a target test that forgets the single-id form of Signal.target
TargetMatchesListOnly(signal, sub) ==
    signal.target.kind # "list" \/ sub.engineId \in signal.target.ids

\* if (signal.target) { targets = isArray ? target : [target];
\*                      if (!targets.includes(sub.engineId)) continue; }
TargetMatches(signal, sub) ==
    signal.target.kind = "none" \/ sub.engineId \in signal.target.ids

\* if (sub.signalTypes && !sub.signalTypes.includes(signal.type)) continue;
TypeMatches(signal, sub) ==
    ~sub.filtered \/ signal.type \in sub.signalTypes

\* the body of a handler: what the subscriber does with the signal
HandlerBody(b, sub, signal, t) ==
    CASE sub.handler = "throw" -> [b EXCEPT !.raised = TRUE]
      [] sub.handler = "emit" ->
           IF b.signalCounter < MaxSignals
           THEN BusEmit(b, signal.type, sub.engineId, NoTarget, sub.arg, t, SIGNAL_TTL)
           ELSE b
      [] sub.handler = "unsub" -> BusUnsubscribe(b, sub.arg)
      [] sub.handler = "inbox" -> [b EXCEPT !.inbox[sub.engineId] = Append(@, signal)]
      [] OTHER -> b

\* no catch: the handler's exception leaves flush()
RethrowHandlerError(b) == b

\* catch (e) { console.error(...) }
CatchHandlerError(b) == [b EXCEPT !.raised = FALSE]

\* try { sub.handler(signal) } catch (e) { ... }
InvokeHandler(b, sub, signal, t) ==
    LET b1 == [b EXCEPT !.calls = Append(b.calls,
                  [sig |-> signal.id, sub |-> sub.id, threw |-> sub.handler = "throw"])]
    IN CatchHandlerError(HandlerBody(b1, sub, signal, t))

\* an iteration over a copy of the entries taken when the loop began
IteratorSnapshot(b, b0) == SeqRange(b0.subscriptions)

\* the entries the iterator of this.subscriptions.values() can still reach:
\* a Map iterator is live (b is the bus now, b0 the bus when the loop began)
IteratorEntries(b, b0) == SeqRange(b.subscriptions)

RECURSIVE DeliverFrom(_, _, _, _, _)
\* for (const sub of this.subscriptions.values()) { ... }: the entries are
\* visited in insertion order, which is the order of their ids; k is the id
\* of the last entry visited.  An exception that is not caught ends the loop.
DeliverFrom(b, b0, signal, k, t) ==
    LET rest == {s \in IteratorEntries(b, b0) : s.id > k}
    IN IF rest = {} \/ b.raised THEN b
       ELSE LET sub == CHOOSE s \in rest : \A r \in rest : s.id <= r.id
            IN DeliverFrom(IF TargetMatches(signal, sub) /\ TypeMatches(signal, sub)
                           THEN InvokeHandler(b, sub, signal, t)
                           ELSE b,
                           b0, signal, sub.id, t)

RECURSIVE Drain(_, _)
\* while (this.queue.length > 0) { shift; processed.push; history; deliver }
Drain(b, t) ==
    IF b.queue = <<>> \/ b.raised THEN b
    ELSE LET signal == Head(b.queue)
             b1 == RecordHistory([b EXCEPT !.queue = Tail(b.queue),
                                           !.processed = Append(b.processed, signal)],
                                 signal)
         IN Drain(DeliverFrom(b1, b1, signal, 0, t), t)

\* filter(s => now - s.timestamp <= s.ttl): a signal of age ttl survives
UnexpiredInclusive(q, t) ==
    SelectSeqBy(q, {s \in SeqRange(q) : t - s.timestamp <= s.ttl})

\* this.queue.filter(s => now - s.timestamp < s.ttl)
Unexpired(q, t) ==
    SelectSeqBy(q, {s \in SeqRange(q) : t - s.timestamp < s.ttl})

\* flush() on a bus value
BusFlush(b, t) == Drain([b EXCEPT !.queue = Unexpired(b.queue, t)], t)

\* a getHistory() that returns the buffer in storage order
GetHistoryUnordered == history

\* getHistory()
GetHistory ==
    IF Len(history) < SIGNAL_HISTORY_SIZE THEN history
    ELSE SubSeq(history, historyIndex + 1, Len(history))
            \o SubSeq(history, 1, historyIndex)

\* what a caller sees of a call: its name, its argument or return value,
\* the handler invocations it made, and whether it threw
Observe(op, ret, b) == [op |-> op, ret |-> ret, calls |-> b.calls, threw |-> b.raised]

\* a call on the bus is no call on the loop
NoFrame == [op |-> "none", steps |-> <<>>, threw |-> FALSE]

NoSelfCall == [op |-> "none", dims |-> {}, ret |-> <<>>]

SelfUntouched ==
    /\ selfOut' = NoSelfCall
    /\ UNCHANGED <<current, targetState, snapshots, cachedSnapshot, stream,
                   streamArrays, cachedStream, streamReads, pushed,
                   driveEvals, lastExternalInput, settled, selfCalls>>

\* a call that reaches no bridge
BridgeUntouched ==
    UNCHANGED <<payloads, thoughtBridges, activeThought, bodyBridges, activeBody,
                external, deliveries, polled>>

\* a call on the bus is no call on the loop or on the store
LoopIdle ==
    /\ SelfUntouched
    /\ frame' = NoFrame
    /\ UNCHANGED <<engines, registry, running, rafId, rafCounter, hostPending,
                   frameTime, loopTickCount, frameCounter, lastActiveSignals,
                   gateway, mind, applied, proxy, lastDriveEval>>

LoopUntouched ==
    /\ LoopIdle
    /\ BridgeUntouched

----------------------------------------------------------------------------
(* ThoughtBridge: the handler a bridge subscribes *)

\* signal.payload; a thought carries an ActionDecision, of which the bridge
\* compares the content
PayloadOf(p, id) == IF id \in DOMAIN p THEN p[id] ELSE "none"

\* the bridges and their calls as one value, threaded through a flush
BridgeValue ==
    [thought |-> thoughtBridges, body |-> bodyBridges, external |-> external,
     payloads |-> payloads, deliveries |-> deliveries]

\* the fields of a ThoughtBridge after its constructor.  lastProcessedTime
\* is 0 on the clock of Date.now(); the clock of the model starts at 0, so
\* the epoch lies at least DEDUP_WINDOW before it
NewThoughtBridge(subscriptionId) ==
    [subscriptionId |-> subscriptionId, processing |-> FALSE,
     conversationHistory |-> <<>>,
     lastProcessedContent |-> "", lastProcessedTime |-> 0 - DEDUP_WINDOW]

\* the external calls of a bridge that have not ended
InFlight(calls, kind, i) ==
    {k \in DOMAIN calls : /\ calls[k].kind = kind /\ calls[k].bridge = i
                          /\ calls[k].outcome = "pending"}

\* a bridge without the busy test
NeverBusy(br) == FALSE

\* if (this.processing) return
Busy(br) == br.processing

\* a comparison of the content alone, whatever the time
DuplicateAnyTime(br, content, t) == content = br.lastProcessedContent

\* decision.content === this.lastProcessedContent &&
\* now - this.lastProcessedTime < 5000
Duplicate(br, content, t) ==
    /\ content = br.lastProcessedContent
    /\ t - br.lastProcessedTime < DEDUP_WINDOW

\* Array.prototype.slice(-n)
SliceFrom(s, n) == IF Len(s) > n THEN SubSeq(s, Len(s) - n + 1, Len(s)) ELSE s

\* conversationHistory.push({role: 'user', ...}); the entry carries the id
\* of the signal it was made for, which stands for the identity of the
\* object; then: if (length > 40) conversationHistory = slice(-40)
PushUserMessage(conv, content, sig) ==
    LET longer == Append(conv, [role |-> "user", content |-> content, of |-> sig])
    IN IF Len(longer) > HISTORY_LIMIT THEN SliceFrom(longer, HISTORY_LIMIT)
       ELSE longer

\* conversationHistory.push({role: 'assistant', content: result.text})
PushAssistantMessage(conv, k) ==
    Append(conv, [role |-> "assistant", content |-> "result", of |-> k])

\* this.conversationHistory.slice(0, -1)
ExcludeCurrent(conv) == SubSeq(conv, 1, Len(conv) - 1)

\* the body of the request: conversationHistory.slice(0, -1) of the
\* history with the user message pushed
PassedHistory(br, content, sig) ==
    ExcludeCurrent(PushUserMessage(br.conversationHistory, content, sig))

\* what the log keeps of an invocation of handleThought
ThoughtDelivery(x, i, sig, t, content, accepted, passed) ==
    [kind |-> "think", bridge |-> i, sig |-> sig, content |-> content, at |-> t,
     inFlight |-> Cardinality(InFlight(x.external, "think", i)),
     accepted |-> accepted,
     passedLen |-> Len(passed),
     passedCurrent |-> \E n \in DOMAIN passed :
                          passed[n].role = "user" /\ passed[n].of = sig]

\* ThoughtBridge.handleThought up to its first await: the busy test, the
\* deduplication, the user message pushed to the history, and the fetch()
\* it issues
HandleThought(x, i, sig, t) ==
    LET br == x.thought[i]
        content == PayloadOf(x.payloads, sig)
    IN IF Busy(br) \/ Duplicate(br, content, t)
       THEN [x EXCEPT !.deliveries = Append(@,
                ThoughtDelivery(x, i, sig, t, content, FALSE, <<>>))]
       ELSE [x EXCEPT
               !.deliveries = Append(@,
                  ThoughtDelivery(x, i, sig, t, content, TRUE,
                                  PassedHistory(br, content, sig))),
               !.thought[i] = [br EXCEPT
                  !.lastProcessedContent = content,
                  !.lastProcessedTime = t,
                  !.processing = TRUE,
                  !.conversationHistory =
                     PushUserMessage(br.conversationHistory, content, sig)],
               !.external = Append(@, [kind |-> "think", bridge |-> i,
                                       request |-> sig, at |-> t,
                                       outcome |-> "pending", result |-> 0])]

\* the fields of a BodyBridge after its constructor
NewBodyBridge(intentSubscriptionId, statusSubscriptionId) ==
    [intentSubscriptionId |-> intentSubscriptionId,
     statusSubscriptionId |-> statusSubscriptionId,
     manifest |-> 0, pollInterval |-> TRUE, activeTasks |-> {}]

\* BodyBridge.fetchManifest up to its first await: the fetch() it issues
FetchManifest(x, i, t) ==
    [x EXCEPT !.external = Append(@, [kind |-> "manifest", bridge |-> i,
                                      request |-> 0, at |-> t,
                                      outcome |-> "pending", result |-> 0])]

\* BodyBridge.handleIntent up to its first await: the type guard, which
\* the subscription's filter has already applied, and the fetch() it issues
HandleIntent(x, i, sig, t) ==
    LET noted == [x EXCEPT !.deliveries = Append(@,
                     [kind |-> "execute", bridge |-> i, sig |-> sig,
                      content |-> PayloadOf(x.payloads, sig), at |-> t,
                      inFlight |-> Cardinality(InFlight(x.external, "execute", i)),
                      accepted |-> TRUE, passedLen |-> 0,
                      passedCurrent |-> FALSE])]
    IN [noted EXCEPT !.external = Append(@, [kind |-> "execute", bridge |-> i,
                                             request |-> sig, at |-> t,
                                             outcome |-> "pending", result |-> 0])]

\* the handler a subscription id belongs to
HandlerOf(x, subscriptionId) ==
    IF \E i \in DOMAIN x.thought : x.thought[i].subscriptionId = subscriptionId
    THEN [kind |-> "think",
          bridge |-> CHOOSE i \in DOMAIN x.thought :
                        x.thought[i].subscriptionId = subscriptionId]
    ELSE IF \E i \in DOMAIN x.body : x.body[i].intentSubscriptionId = subscriptionId
    THEN [kind |-> "execute",
          bridge |-> CHOOSE i \in DOMAIN x.body :
                        x.body[i].intentSubscriptionId = subscriptionId]
    ELSE IF \E i \in DOMAIN x.body : x.body[i].statusSubscriptionId = subscriptionId
    THEN [kind |-> "manifest",
          bridge |-> CHOOSE i \in DOMAIN x.body :
                        x.body[i].statusSubscriptionId = subscriptionId]
    ELSE [kind |-> "none", bridge |-> 0]

RECURSIVE BridgesAfter(_, _, _)
\* what the handler invocations of a flush do to the bridges, in the order
\* in which flush() made them
BridgesAfter(x, calls, t) ==
    IF calls = <<>> THEN x
    ELSE LET c == Head(calls)
             h == HandlerOf(x, c.sub)
         IN BridgesAfter(CASE h.kind = "think" -> HandleThought(x, h.bridge, c.sig, t)
                           [] h.kind = "execute" -> HandleIntent(x, h.bridge, c.sig, t)
                           [] h.kind = "manifest" -> FetchManifest(x, h.bridge, t)
                           [] OTHER -> x,
                         Tail(calls), t)

\* the bridges after a call
BridgesBecome(x) ==
    /\ thoughtBridges' = x.thought
    /\ bodyBridges' = x.body
    /\ external' = x.external
    /\ payloads' = x.payloads
    /\ deliveries' = x.deliveries
    /\ polled' = polled

----------------------------------------------------------------------------
(* SignalBus: the calls *)

\* the bus after a call
BusBecomes(b) ==
    /\ queue' = b.queue
    /\ subscriptions' = b.subscriptions
    /\ history' = b.history
    /\ historyIndex' = b.historyIndex
    /\ recorded' = b.recorded
    /\ signalCounter' = b.signalCounter
    /\ inbox' = b.inbox
    /\ unsubscribed' = b.unsubscribed

\* SignalBus.emit; the caller passes no id and no timestamp
Emit(type, source, target, priority, ttl) ==
    LET b == BusEmit(BusValue, type, source, target, priority, now, ttl)
    IN /\ BusBecomes(b)
       /\ out' = Observe("emit", <<b.signalCounter>>, b)
       /\ UNCHANGED <<subCounter, now>>
       /\ LoopUntouched

\* SignalBus.subscribe
Subscribe(engineId, filtered, signalTypes, handler, arg) ==
    LET b == [BusValue EXCEPT !.subscriptions = Append(@,
                 [id |-> subCounter + 1, engineId |-> engineId,
                  filtered |-> filtered, signalTypes |-> signalTypes,
                  handler |-> handler, arg |-> arg])]
    IN /\ BusBecomes(b)
       /\ subCounter' = subCounter + 1
       /\ out' = Observe("subscribe", <<subCounter + 1>>, b)
       /\ UNCHANGED now
       /\ LoopUntouched

\* SignalBus.unsubscribe
Unsubscribe(subscriptionId) ==
    LET b == BusUnsubscribe(BusValue, subscriptionId)
    IN /\ BusBecomes(b)
       /\ out' = Observe("unsubscribe", <<subscriptionId>>, b)
       /\ UNCHANGED <<subCounter, now>>
       /\ LoopUntouched

\* SignalBus.flush
Flush ==
    LET b == BusFlush(BusValue, now)
    IN /\ BusBecomes(b)
       /\ out' = Observe("flush", b.processed, b)
       /\ BridgesBecome(BridgesAfter(BridgeValue, b.calls, now))
       /\ UNCHANGED <<subCounter, now, activeThought, activeBody>>
       /\ LoopIdle

\* time passes between two calls
Advance ==
    /\ now + ClockStep <= MaxNow
    /\ now' = now + ClockStep
    /\ out' = Observe("advance", <<>>, BusValue)
    /\ UNCHANGED <<queue, subscriptions, history, historyIndex, recorded, signalCounter,
                   subCounter, inbox, unsubscribed>>
    /\ LoopUntouched

----------------------------------------------------------------------------
(* Engine and CognitiveLoop *)

\* TICK_RATES
TickRate(e) == CASE e = "safety" -> TICK_RATE_SAFETY
                 [] e = "expression" -> TICK_RATE_EXPRESSION
                 [] e = "text-input" -> TICK_RATE_TEXT_INPUT
                 [] e = "perception" -> TICK_RATE_PERCEPTION
                 [] e = "attention" -> TICK_RATE_ATTENTION
                 [] e = "binder" -> TICK_RATE_BINDER
                 [] e = "arbiter" -> TICK_RATE_ARBITER

\* the fields of a new Engine; proc and idle say what the subclass's
\* process() and onIdle() do
NewEngine(subscriptionId, proc, idle) ==
    [lastTick |-> 0, tickCount |-> 0, signalsProcessed |-> 0,
     status |-> "idle", debugInfo |-> FALSE, subscriptionId |-> subscriptionId,
     proc |-> proc, idle |-> idle]

\* the loop with its bus and engines as one value, threaded through a call;
\* steps lists what the call did, raised says an exception is propagating
World ==
    [b |-> BusValue, eng |-> engines, registry |-> registry, running |-> running,
     rafId |-> rafId, rafCounter |-> rafCounter, hostPending |-> hostPending,
     loopTickCount |-> loopTickCount, frameCounter |-> frameCounter,
     lastActiveSignals |-> lastActiveSignals, lastDriveEval |-> lastDriveEval,
     steps |-> <<>>, raised |-> FALSE]

Step(kind, e, n) == [kind |-> kind, engine |-> e, n |-> n, batch |-> <<>>]

\* the call process(signals), with the ids of the batch
ProcessStep(e, signals) ==
    [Step("process", e, Len(signals)) EXCEPT
        !.batch = [i \in DOMAIN signals |-> signals[i].id]]

\* Engine.emit: priority defaults to 50, no target
EngineEmit(w, e, type) ==
    [w EXCEPT !.b = BusEmit(w.b, type, e, NoTarget, PRIORITY_MEDIUM, now, SIGNAL_TTL)]

\* the subclass's process(signals)
ProcessBody(w, e, signals) ==
    CASE w.eng[e].proc = "throw" -> [w EXCEPT !.raised = TRUE]
      [] w.eng[e].proc = "emit" ->
           IF w.b.signalCounter < MaxLoopSignals THEN EngineEmit(w, e, "thought") ELSE w
      [] OTHER -> w

\* no catch: the exception of process() leaves tick()
RethrowProcessError(w, e) == w

\* catch (e) { this.status = 'error'; this.debugInfo = String(e); ... }
CatchProcessError(w, e) ==
    IF w.raised
    THEN [w EXCEPT !.raised = FALSE, !.eng[e].status = "error", !.eng[e].debugInfo = TRUE]
    ELSE w

\* onIdle(): the base class sets status to 'idle'; an override may throw
OnIdleBody(w, e) ==
    IF w.eng[e].idle = "throw" THEN [w EXCEPT !.raised = TRUE]
    ELSE [w EXCEPT !.eng[e].status = "idle"]

\* a tick() that also returns when exactly tickInterval has elapsed
TooEarlyInclusive(en, e, t) == t - en.lastTick <= TickRate(e)

\* if (now - this.lastTick < this.tickInterval) return;
TooEarly(en, e, t) == t - en.lastTick < TickRate(e)

\* a tick() that hands the inbox to process() without clearing it
EngineTickKeepsInbox(w, e, t) ==
    LET w0 == [w EXCEPT !.steps = Append(@, Step("tick", e, 0))]
    IN
    IF TooEarly(w0.eng[e], e, t) THEN w0
    ELSE LET w1 == [w0 EXCEPT !.eng[e].lastTick = t, !.eng[e].tickCount = @ + 1]
         IN IF Len(w1.b.inbox[e]) > 0
            THEN LET signals == w1.b.inbox[e]
                     w2 == [w1 EXCEPT !.eng[e].status = "processing",
                                      !.eng[e].signalsProcessed = @ + Len(signals),
                                      !.steps = Append(@, ProcessStep(e, signals))]
                 IN CatchProcessError(ProcessBody(w2, e, signals), e)
            ELSE OnIdleBody([w1 EXCEPT !.steps = Append(@, Step("onIdle", e, 0))], e)

\* Engine.tick(now)
EngineTick(w, e, t) ==
    LET w0 == [w EXCEPT !.steps = Append(@, Step("tick", e, 0))]
    IN
    IF TooEarly(w0.eng[e], e, t) THEN w0
    ELSE LET w1 == [w0 EXCEPT !.eng[e].lastTick = t, !.eng[e].tickCount = @ + 1]
         IN IF Len(w1.b.inbox[e]) > 0
            THEN LET signals == w1.b.inbox[e]
                     w2 == [w1 EXCEPT !.eng[e].status = "processing",
                                      !.b.inbox[e] = <<>>,
                                      !.eng[e].signalsProcessed = @ + Len(signals),
                                      !.steps = Append(@, ProcessStep(e, signals))]
                 IN CatchProcessError(ProcessBody(w2, e, signals), e)
            ELSE OnIdleBody([w1 EXCEPT !.steps = Append(@, Step("onIdle", e, 0))], e)

RECURSIVE TickAllFlushing(_, _, _)
\* a tick pass that flushes the bus after every engine
TickAllFlushing(w, order, t) ==
    IF order = <<>> \/ w.raised THEN w
    ELSE LET w1 == EngineTick(w, Head(order), t)
         IN TickAllFlushing([w1 EXCEPT !.b = BusFlush(w1.b, now)], Tail(order), t)

RECURSIVE TickAll(_, _, _)
\* for (const engine of this.engines.values()) engine.tick(now);
TickAll(w, order, t) ==
    IF order = <<>> \/ w.raised THEN w
    ELSE TickAll(EngineTick(w, Head(order), t), Tail(order), t)

\* const processed = this.bus.flush(); if (processed.length > 0) ...
LoopFlush(w) ==
    LET fb == BusFlush(w.b, now)
    IN [w EXCEPT !.b = fb,
                 !.raised = fb.raised,
                 !.lastActiveSignals = IF Len(fb.processed) > 0 THEN fb.processed ELSE @,
                 !.steps = Append(@, Step("flush", "", Len(fb.processed)))]

\* const stateChanged = this.selfState.update()
LoopUpdate(w, stateChanged) ==
    [w EXCEPT !.steps = Append(@, Step("update", "", IF stateChanged THEN 1 ELSE 0))]

\* evaluateDrives(): nothing within DRIVE_EVAL_COOLDOWN of the last
\* evaluation, else the pulses the thresholds yield (drives: how many);
\* loop() emits one 'drive-pulse' signal per pulse
LoopDrives(w, drives) ==
    IF now - w.lastDriveEval < DRIVE_EVAL_COOLDOWN
    THEN [w EXCEPT !.steps = Append(@, Step("drives", "", 0))]
    ELSE LET w1 == [w EXCEPT !.lastDriveEval = now,
                             !.steps = Append(@, Step("drives", "", drives))]
         IN IF drives > 0 /\ w1.b.signalCounter < MaxLoopSignals
            THEN [w1 EXCEPT !.b = BusEmit(w1.b, "drive-pulse", "attention", NoTarget,
                                          PRIORITY_IDLE, now, SIGNAL_TTL)]
            ELSE w1

\* if (hasActivity || frameCounter >= notifyEveryN) { frameCounter = 0;
\*   rebuildSnapshot(); notify() }
LoopNotify(w, stateChanged) ==
    IF Len(w.b.processed) > 0 \/ stateChanged \/ w.frameCounter >= notifyEveryN
    THEN [w EXCEPT !.frameCounter = 0, !.steps = Append(@, Step("notify", "", 0))]
    ELSE w

\* this.rafId = requestAnimationFrame(this.loop)
RequestFrame(w) ==
    [w EXCEPT !.rafCounter = @ + 1, !.rafId = w.rafCounter + 1,
              !.hostPending = @ \cup {w.rafCounter + 1},
              !.steps = Append(@, Step("schedule", "", 0))]

\* what follows a step of loop(): nothing once an exception propagates
Then(w, next) == IF w.raised THEN w ELSE next

\* a loop() that flushes what was pending before it ticks the engines
LoopBodyFlushFirst(w, t, stateChanged, drives) ==
    IF ~w.running THEN w
    ELSE LET w1 == [w EXCEPT !.loopTickCount = @ + 1, !.frameCounter = @ + 1]
             w2 == LoopFlush(w1)
             w3 == Then(w2, TickAll(w2, w2.registry, t))
             w4 == Then(w3, LoopUpdate(w3, stateChanged))
             w5 == Then(w4, LoopDrives(w4, drives))
             w6 == Then(w5, LoopNotify(w5, stateChanged))
         IN Then(w6, RequestFrame(w6))

\* CognitiveLoop.loop(now)
LoopBody(w, t, stateChanged, drives) ==
    IF ~w.running THEN w
    ELSE LET w1 == [w EXCEPT !.loopTickCount = @ + 1, !.frameCounter = @ + 1]
             w2 == TickAll(w1, w1.registry, t)
             w3 == Then(w2, LoopFlush(w2))
             w4 == Then(w3, LoopUpdate(w3, stateChanged))
             w5 == Then(w4, LoopDrives(w4, drives))
             w6 == Then(w5, LoopNotify(w5, stateChanged))
         IN Then(w6, RequestFrame(w6))

\* CognitiveLoop.stop on a loop value
LoopStop(w) ==
    [w EXCEPT !.running = FALSE,
              !.hostPending = IF w.rafId # 0 THEN @ \ {w.rafId} ELSE @,
              !.rafId = 0]

\* a listener registered with subscribe(), called by notify(): one that
\* returns, one that calls stop()
Listeners == {"noop", "stop"}

\* for (const listener of this.listeners) listener()
ListenerCalls(w, listener) ==
    IF listener = "stop" THEN LoopStop(w) ELSE w

\* the notify step of loop() with a listener subscribed
LoopNotifyListener(w, stateChanged, listener) ==
    LET w1 == LoopNotify(w, stateChanged)
    IN IF Len(w1.steps) > Len(w.steps) THEN ListenerCalls(w1, listener) ELSE w1

\* CognitiveLoop.loop(now) with a listener subscribed
LoopBodyObserved(w, t, stateChanged, drives, listener) ==
    IF ~w.running THEN w
    ELSE LET w1 == [w EXCEPT !.loopTickCount = @ + 1, !.frameCounter = @ + 1]
             w2 == TickAll(w1, w1.registry, t)
             w3 == Then(w2, LoopFlush(w2))
             w4 == Then(w3, LoopUpdate(w3, stateChanged))
             w5 == Then(w4, LoopDrives(w4, drives))
             w6 == Then(w5, LoopNotifyListener(w5, stateChanged, listener))
         IN Then(w6, RequestFrame(w6))

\* the loop, its bus and its engines after a call
WorldBecomes(w, op) ==
    /\ BusBecomes(w.b)
    /\ out' = Observe("loop", w.b.processed, w.b)
    /\ engines' = w.eng
    /\ registry' = w.registry
    /\ running' = w.running
    /\ rafId' = w.rafId
    /\ rafCounter' = w.rafCounter
    /\ hostPending' = w.hostPending
    /\ loopTickCount' = w.loopTickCount
    /\ frameCounter' = w.frameCounter
    /\ lastActiveSignals' = w.lastActiveSignals
    /\ lastDriveEval' = w.lastDriveEval
    /\ frame' = [op |-> op, steps |-> w.steps, threw |-> w.raised]
    /\ UNCHANGED <<gateway, mind, applied, proxy>>
    /\ SelfUntouched
    /\ BridgeUntouched

\* CognitiveLoop.registerEngine: engine.init subscribes the inbox handler
\* for all signal types (subscribesTo() of the base class)
RegisterEngine(e, proc, idle) ==
    /\ e \notin DOMAIN engines
    /\ LET sub == [id |-> subCounter + 1, engineId |-> e, filtered |-> FALSE,
                   signalTypes |-> {}, handler |-> "inbox", arg |-> 0]
           w == [World EXCEPT !.b.subscriptions = Append(@, sub),
                              !.eng = @ @@ (e :> NewEngine(subCounter + 1, proc, idle)),
                              !.registry = Append(@, e)]
       IN WorldBecomes(w, "registerEngine")
    /\ subCounter' = subCounter + 1
    /\ UNCHANGED <<now, frameTime>>

\* CognitiveLoop.start: loop(performance.now()) runs at once
Start(stateChanged, drives) ==
    /\ WorldBecomes(IF running THEN World
                    ELSE LoopBody([World EXCEPT !.running = TRUE], frameTime,
                                  stateChanged, drives),
                    "start")
    /\ UNCHANGED <<subCounter, now, frameTime>>

\* CognitiveLoop.stop
Stop ==
    /\ WorldBecomes(LoopStop(World), "stop")
    /\ UNCHANGED <<subCounter, now, frameTime>>

\* the host calls the frame callback it was asked for, dt ms after the
\* previous call of loop()
FrameAfter(id, dt, stateChanged, drives) ==
    /\ id \in hostPending
    /\ frameTime' = frameTime + dt
    /\ WorldBecomes(LoopBody([World EXCEPT !.hostPending = @ \ {id}], frameTime',
                             stateChanged, drives),
                    "frame")
    /\ UNCHANGED <<subCounter, now>>

\* the host calls the frame callback it was asked for, one frame later
Frame(id, stateChanged, drives) == FrameAfter(id, FrameStep, stateChanged, drives)

\* CognitiveLoop.start with a listener subscribed
StartObserved(stateChanged, drives, listener) ==
    /\ WorldBecomes(IF running THEN World
                    ELSE LoopBodyObserved([World EXCEPT !.running = TRUE], frameTime,
                                          stateChanged, drives, listener),
                    "start")
    /\ UNCHANGED <<subCounter, now, frameTime>>

\* the host calls a frame callback of a loop with a listener subscribed
FrameObserved(id, stateChanged, drives, listener) ==
    /\ id \in hostPending
    /\ frameTime' = frameTime + FrameStep
    /\ WorldBecomes(LoopBodyObserved([World EXCEPT !.hostPending = @ \ {id}],
                                     frameTime', stateChanged, drives, listener),
                    "frame")
    /\ UNCHANGED <<subCounter, now>>

\* a destroy() whose engines keep their bus subscriptions
KeepSubscriptions(w, order) == w

RECURSIVE DestroyEngines(_, _)
\* for (const engine of this.engines.values()) engine.destroy();
DestroyEngines(w, order) ==
    IF order = <<>> THEN w
    ELSE DestroyEngines(
            [w EXCEPT !.b = IF w.eng[Head(order)].subscriptionId # 0
                            THEN BusUnsubscribe(w.b, w.eng[Head(order)].subscriptionId)
                            ELSE w.b],
            Tail(order))

\* SignalBus.clear on a bus value
BusClear(b) == [b EXCEPT !.queue = <<>>, !.history = <<>>, !.historyIndex = 0]

\* CognitiveLoop.destroy
Destroy ==
    /\ LET w1 == DestroyEngines(LoopStop(World), registry)
           w2 == [w1 EXCEPT !.eng = <<>>, !.registry = <<>>, !.b = BusClear(w1.b)]
       IN WorldBecomes(w2, "destroy")
    /\ UNCHANGED <<subCounter, now, frameTime>>

----------------------------------------------------------------------------
(* SelfStateManager *)

\* const dims in update(), the keys of SelfState
Dimensions == <<"valence", "arousal", "confidence", "energy", "social", "curiosity">>

DimensionSet == {Dimensions[i] : i \in DOMAIN Dimensions}

\* SELF_STATE_DEFAULTS
SELF_STATE_DEFAULTS ==
    [valence |-> 6000, arousal |-> 3000, confidence |-> 5000,
     energy |-> 7000, social |-> 4000, curiosity |-> 6000]

Max(a, b) == IF a >= b THEN a ELSE b

Min(a, b) == IF a <= b THEN a ELSE b

Abs(a) == IF a >= 0 THEN a ELSE 0 - a

\* x * num / den on the fixed-point grid, rounded toward zero
Scaled(x, num, den) ==
    IF x >= 0 THEN (x * num) \div den ELSE 0 - (((0 - x) * num) \div den)

\* function clamp(value, min, max)
Clamp(value, min, max) == Max(min, Min(max, value))

\* const min = dimension === 'valence' ? -1 : 0
MinOf(dimension) == IF dimension = "valence" THEN 0 - ONE ELSE 0

\* nudge: this.target[dimension] = clamp(this.target[dimension] + delta, min, 1)
NudgeTarget(tg, dimension, delta) ==
    [tg EXCEPT ![dimension] = Clamp(@ + delta, MinOf(dimension), ONE)]

\* setTarget: this.target[dimension] = clamp(value, min, 1)
SetTargetValue(tg, dimension, value) ==
    [tg EXCEPT ![dimension] = Clamp(value, MinOf(dimension), ONE)]

\* the value of a key of a Partial<SelfState>: a number, or undefined
Number(x) == [defined |-> TRUE, delta |-> x]

Undefined == [defined |-> FALSE, delta |-> 0]

\* the keys of a shift whose value is not undefined
DefinedKeys(shift) == {d \in DOMAIN shift : shift[d].defined}

RECURSIVE ShiftFrom(_, _, _)
\* for (const [dim, delta] of Object.entries(shift)) if (delta !== undefined) nudge
ShiftFrom(tg, shift, k) ==
    IF k > Len(Dimensions) THEN tg
    ELSE IF Dimensions[k] \in DefinedKeys(shift)
         THEN ShiftFrom(NudgeTarget(tg, Dimensions[k], shift[Dimensions[k]].delta), shift, k + 1)
         ELSE ShiftFrom(tg, shift, k + 1)

\* an applyShift that nudges every dimension, absent keys by the first delta
ApplyShiftToAll(tg, shift) ==
    LET d0 == CHOOSE d \in DefinedKeys(shift) : TRUE
    IN IF DefinedKeys(shift) = {} THEN tg
       ELSE [d \in DimensionSet |->
               NudgeTarget(tg, d, IF d \in DefinedKeys(shift) THEN shift[d].delta
                                  ELSE shift[d0].delta)[d]]

\* applyShift on a target
ApplyShiftTo(tg, shift) == ShiftFrom(tg, shift, 1)

\* update(): whether a dimension is off its target by more than 0.001
OffTarget(cur, tg, d) == Abs(tg[d] - cur[d]) > EPSILON

\* an update() that adds more than the whole difference
LerpOvershooting(cur, tg) ==
    [d \in DimensionSet |->
        IF OffTarget(cur, tg, d)
        THEN cur[d] + Scaled(tg[d] - cur[d], 100 + DAMPING_PERCENT, 100)
        ELSE cur[d]]

\* update(): this.current[dim] += diff * STATE_DAMPING where off target
Lerp(cur, tg) ==
    [d \in DimensionSet |->
        IF OffTarget(cur, tg, d)
        THEN cur[d] + Scaled(tg[d] - cur[d], DAMPING_PERCENT, 100)
        ELSE cur[d]]

\* update(): the rhythmic decay of the targets; breath is
\* Math.sin(Date.now() / 8000) * 0.002
Decay(tg, breath) ==
    [tg EXCEPT !.arousal = @ + Scaled(AROUSAL_REST - @, 1, DECAY_DIVISOR) + breath,
               !.social = @ + Scaled(SOCIAL_REST - @, 1, DECAY_DIVISOR),
               !.energy = Max(0, @ - ENERGY_DEPLETION)]

\* SelfStateManager.get(): the cached object
Get == snapshots[cachedSnapshot]

\* an update() that writes the new values into the cached object
OverwriteSnapshot(heap, ref, cur) == [heap EXCEPT ![ref] = cur]

\* Object.freeze({ ...this.current }): a new object
NewSnapshot(heap, ref, cur) == Append(heap, cur)

\* the drives in the order in which evaluateDrives() pushes them
DriveOrder == <<"explore", "rest", "process", "ruminate", "appreciate", "reach-out">>

\* what evaluateDrives() pushes for a state, past the rate limit, when the
\* last external input was at lastInput
DrivesFor(state, t, lastInput) ==
    {d \in SeqRange(DriveOrder) :
        \/ d = "explore" /\ state.curiosity > EXPLORE_ABOVE
        \/ d = "rest" /\ state.energy < REST_BELOW
        \/ d = "process" /\ state.arousal > PROCESS_ABOVE
        \/ d = "ruminate" /\ state.valence < 0 - RUMINATE_BELOW
        \/ d = "appreciate" /\ state.valence > APPRECIATE_ABOVE
        \/ d = "reach-out" /\ state.social > REACH_OUT_ABOVE
                           /\ t - lastInput > REACH_OUT_QUIET}

\* what evaluateDrives() pushes for a state, past the rate limit
DrivesOf(state, t) == DrivesFor(state, t, lastExternalInput)

\* a call that does not touch the consciousness stream
StreamUntouched ==
    UNCHANGED <<stream, streamArrays, cachedStream, streamReads, pushed>>

\* a call on the store touches neither the bus nor the loop
OnlySelf ==
    /\ selfCalls' = selfCalls + 1
    /\ out' = Observe("self", <<>>, BusValue)
    /\ frame' = NoFrame
    /\ UNCHANGED <<queue, subscriptions, history, historyIndex, recorded, signalCounter,
                   subCounter, now, inbox, unsubscribed>>
    /\ UNCHANGED <<engines, registry, running, rafId, rafCounter, hostPending,
                   frameTime, loopTickCount, frameCounter, lastActiveSignals,
                   gateway, mind, applied, proxy>>
    /\ BridgeUntouched

\* SelfStateManager.nudge
Nudge(dimension, delta) ==
    /\ targetState' = NudgeTarget(targetState, dimension, delta)
    /\ settled' = 0
    /\ selfOut' = [op |-> "nudge", dims |-> {dimension}, ret |-> <<delta>>]
    /\ UNCHANGED <<current, snapshots, cachedSnapshot, lastExternalInput,
                   lastDriveEval, driveEvals>>
    /\ StreamUntouched
    /\ OnlySelf

\* SelfStateManager.setTarget
SetTarget(dimension, value) ==
    /\ targetState' = SetTargetValue(targetState, dimension, value)
    /\ settled' = 0
    /\ selfOut' = [op |-> "setTarget", dims |-> {dimension}, ret |-> <<value>>]
    /\ UNCHANGED <<current, snapshots, cachedSnapshot, lastExternalInput,
                   lastDriveEval, driveEvals>>
    /\ StreamUntouched
    /\ OnlySelf

\* SelfStateManager.applyShift
ApplyShift(shift) ==
    /\ targetState' = ApplyShiftTo(targetState, shift)
    /\ settled' = 0
    /\ selfOut' = [op |-> "applyShift", dims |-> DefinedKeys(shift), ret |-> <<shift>>]
    /\ UNCHANGED <<current, snapshots, cachedSnapshot, lastExternalInput,
                   lastDriveEval, driveEvals>>
    /\ StreamUntouched
    /\ OnlySelf

\* SelfStateManager.update
Update(breath) ==
    LET changed == \E d \in DimensionSet : OffTarget(current, targetState, d)
    IN /\ current' = Lerp(current, targetState)
       /\ targetState' = Decay(targetState, breath)
       /\ snapshots' = IF changed THEN NewSnapshot(snapshots, cachedSnapshot, current')
                       ELSE snapshots
       /\ cachedSnapshot' = IF changed THEN Len(snapshots') ELSE cachedSnapshot
       /\ settled' = settled + 1
       /\ selfOut' = [op |-> "update", dims |-> {}, ret |-> <<changed>>]
       /\ UNCHANGED <<lastExternalInput, lastDriveEval, driveEvals>>
       /\ StreamUntouched
       /\ OnlySelf

\* if (length > MAX_STREAM_SIZE) stream = stream.slice(-MAX_STREAM_SIZE)
SliceNewest(s) ==
    IF Len(s) > MAX_STREAM_SIZE
    THEN SubSeq(s, Len(s) - MAX_STREAM_SIZE + 1, Len(s))
    ELSE s

\* a pushStream() that writes the entries into the cached array
OverwriteCachedStream(heap, ref, s) == [heap EXCEPT ![ref] = s]

\* Object.freeze([...this.stream]): a new array
FrozenCopy(heap, ref, s) == Append(heap, s)

\* the fields of the store an engine writes, as one value threaded through
\* the engine's tick; calls counts the calls made on the store
StoreValue ==
    [targetState |-> targetState, stream |-> stream, streamArrays |-> streamArrays,
     cachedStream |-> cachedStream, pushed |-> pushed,
     lastExternalInput |-> lastExternalInput, streamReads |-> streamReads,
     calls |-> 0, wrote |-> FALSE]

\* nudge() on a store value
StoreNudge(st, dimension, delta) ==
    [st EXCEPT !.targetState = NudgeTarget(@, dimension, delta), !.calls = @ + 1,
              !.wrote = TRUE]

\* applyShift() on a store value
StoreApplyShift(st, shift) ==
    [st EXCEPT !.targetState = ApplyShiftTo(@, shift), !.calls = @ + 1,
               !.wrote = TRUE]

\* markExternalInput() on a store value
StoreMarkExternalInput(st, t) ==
    [st EXCEPT !.lastExternalInput = t, !.calls = @ + 1]

\* getStream() on a store value
StoreGetStream(st) ==
    [st EXCEPT !.streamReads = @ \cup {st.cachedStream}, !.calls = @ + 1]

\* pushStream() on a store value
StorePushStream(st, entry) ==
    LET s == SliceNewest(Append(st.stream, entry))
        heap == FrozenCopy(st.streamArrays, st.cachedStream, s)
    IN [st EXCEPT !.stream = s, !.streamArrays = heap, !.cachedStream = Len(heap),
                  !.pushed = Append(@, entry), !.calls = @ + 1]

\* SelfStateManager.pushStream
PushStream(entry) ==
    /\ stream' = StorePushStream(StoreValue, entry).stream
    /\ streamArrays' = StorePushStream(StoreValue, entry).streamArrays
    /\ cachedStream' = StorePushStream(StoreValue, entry).cachedStream
    /\ pushed' = StorePushStream(StoreValue, entry).pushed
    /\ selfOut' = [op |-> "pushStream", dims |-> {}, ret |-> <<>>]
    /\ UNCHANGED <<current, targetState, snapshots, cachedSnapshot, lastExternalInput,
                   settled, lastDriveEval, driveEvals, streamReads>>
    /\ OnlySelf

\* SelfStateManager.getStream: the cached array
GetStream ==
    /\ streamReads' = streamReads \cup {cachedStream}
    /\ selfOut' = [op |-> "getStream", dims |-> {}, ret |-> <<cachedStream>>]
    /\ UNCHANGED <<current, targetState, snapshots, cachedSnapshot, stream,
                   streamArrays, cachedStream, pushed, lastExternalInput,
                   settled, lastDriveEval, driveEvals>>
    /\ OnlySelf

\* if (now - this.lastDriveEval < DRIVE_EVAL_COOLDOWN) return []
RateLimited(last, t) == t - last < DRIVE_EVAL_COOLDOWN

\* an evaluateDrives() that records only the evaluations with pulses
StampOnPulses(last, pulses, t) == IF pulses = {} THEN last ELSE t

\* this.lastDriveEval = now
Stamp(last, pulses, t) == t

\* SelfStateManager.evaluateDrives
EvaluateDrives ==
    LET limited == RateLimited(lastDriveEval, now)
        pulses == IF limited THEN {} ELSE DrivesOf(current, now)
    IN /\ selfOut' = [op |-> "evaluateDrives", dims |-> {}, ret |-> <<pulses>>]
       /\ lastDriveEval' = IF limited THEN lastDriveEval
                           ELSE Stamp(lastDriveEval, pulses, now)
       /\ driveEvals' = Append(driveEvals, [at |-> now, pulses |-> pulses])
       /\ UNCHANGED <<current, targetState, snapshots, cachedSnapshot,
                      lastExternalInput, settled>>
       /\ StreamUntouched
       /\ OnlySelf

\* SelfStateManager.markExternalInput
MarkExternalInput ==
    /\ lastExternalInput' = now
    /\ selfOut' = [op |-> "markExternalInput", dims |-> {}, ret |-> <<>>]
    /\ UNCHANGED <<current, targetState, snapshots, cachedSnapshot, settled,
                   lastDriveEval, driveEvals>>
    /\ StreamUntouched
    /\ OnlySelf

\* dt ms pass between two calls on the store
Elapse(dt) ==
    /\ now' = now + dt
    /\ out' = Observe("advance", <<>>, BusValue)
    /\ UNCHANGED <<queue, subscriptions, history, historyIndex, recorded, signalCounter,
                   subCounter, inbox, unsubscribed>>
    /\ LoopUntouched

\* SelfStateManager.restore
Restore(state) ==
    /\ current' = state
    /\ targetState' = state
    /\ snapshots' = Append(snapshots, state)
    /\ cachedSnapshot' = Len(snapshots')
    /\ settled' = 0
    /\ selfOut' = [op |-> "restore", dims |-> DimensionSet, ret |-> <<>>]
    /\ UNCHANGED <<lastExternalInput, lastDriveEval, driveEvals>>
    /\ StreamUntouched
    /\ OnlySelf

----------------------------------------------------------------------------
(* ThoughtBridge: construction, teardown and the end of an external call *)

\* bus.emit of a signal whose payload matters
EmitWith(type, source, target, priority, payload) ==
    LET b == BusEmit(BusValue, type, source, target, priority, now, SIGNAL_TTL)
    IN /\ BusBecomes(b)
       /\ out' = Observe("emit", <<b.signalCounter>>, b)
       /\ payloads' = payloads @@ (b.signalCounter :> payload)
       /\ UNCHANGED <<subCounter, now, thoughtBridges, activeThought, bodyBridges,
                      activeBody, external, deliveries, polled>>
       /\ LoopIdle

\* ThoughtBridge.destroy on a bus value
BridgeDestroy(b, i) == BusUnsubscribe(b, thoughtBridges[i].subscriptionId)

\* new ThoughtBridge(bus): the previous instance is destroyed, the new one
\* subscribes as the arbiter to 'thought' signals
ConstructThoughtBridge ==
    LET b0 == IF activeThought # 0 THEN BridgeDestroy(BusValue, activeThought)
              ELSE BusValue
        b == [b0 EXCEPT !.subscriptions = Append(@,
                 [id |-> subCounter + 1, engineId |-> "arbiter",
                  filtered |-> TRUE, signalTypes |-> {"thought"},
                  handler |-> "handleThought", arg |-> 0])]
    IN /\ BusBecomes(b)
       /\ subCounter' = subCounter + 1
       /\ out' = Observe("new ThoughtBridge", <<subCounter + 1>>, b)
       /\ thoughtBridges' = Append(thoughtBridges, NewThoughtBridge(subCounter + 1))
       /\ activeThought' = Len(thoughtBridges')
       /\ UNCHANGED <<now, payloads, external, deliveries, polled, bodyBridges, activeBody>>
       /\ LoopIdle

\* ThoughtBridge.destroy
DestroyThoughtBridge(i) ==
    LET b == BridgeDestroy(BusValue, i)
    IN /\ BusBecomes(b)
       /\ out' = Observe("destroy", <<i>>, b)
       /\ activeThought' = IF activeThought = i THEN 0 ELSE activeThought
       /\ UNCHANGED <<subCounter, now, payloads, thoughtBridges, external,
                      deliveries, polled, bodyBridges, activeBody>>
       /\ LoopIdle

\* how an external call can end: a response that is ok and parses, a
\* response that is not ok, a rejection, a body that does not parse
Outcomes == {"ok", "not-ok", "rejects", "unparseable"}

\* what the log of external calls keeps of an outcome
Ended(outcome) == IF outcome = "ok" THEN "ok" ELSE "failed"

\* the target of a 'claude-response'
ResponseTarget == ListTarget({"arbiter", "growth"})

\* a catch block that logs and emits nothing
LogThinkError(b, t) == b

\* catch (error) { console.error(...); this.bus.emit({ ... fallback ... }) }
CatchThinkError(b, t) ==
    BusEmit(b, "claude-response", "arbiter", ResponseTarget, PRIORITY_HIGH, t,
            SIGNAL_TTL)

\* the rest of handleThought, from the await on: the result is emitted, or
\* the catch block emits the fallback
EmitResult(b, i, outcome, t) ==
    IF outcome = "ok"
    THEN BusEmit(b, "claude-response", "arbiter", ResponseTarget, PRIORITY_HIGH,
                 t, SIGNAL_TTL)
    ELSE CatchThinkError(b, t)

\* the payload of the signal: the parsed body, or the fallback utterance
\* with emotionShift {confidence: -0.1, energy: -0.05}
ResultPayload(outcome) == IF outcome = "ok" THEN "result" ELSE "fallback"

\* the bridge when its call k has ended: the assistant message is pushed
\* if the response was ok and parsed, and finally processing is cleared
BridgeAfterCall(br, k, outcome) ==
    [br EXCEPT !.processing = FALSE,
               !.conversationHistory =
                  IF outcome = "ok" THEN PushAssistantMessage(br.conversationHistory, k)
                  ELSE br.conversationHistory]

\* the external call k of a ThoughtBridge ends: handleThought resumes,
\* emits and, in its finally block, clears processing
Resolve(k, outcome) ==
    LET i == external[k].bridge
        b == EmitResult(BusValue, i, outcome, now)
        emitted == b.signalCounter # signalCounter
    IN /\ external[k].kind = "think"
       /\ external[k].outcome = "pending"
       /\ BusBecomes(b)
       /\ out' = Observe("resolve", <<k, outcome>>, b)
       /\ payloads' = IF emitted
                      THEN payloads @@ (b.signalCounter :> ResultPayload(outcome))
                      ELSE payloads
       /\ external' = [external EXCEPT ![k].outcome = Ended(outcome),
                                       ![k].result = IF emitted THEN b.signalCounter
                                                     ELSE 0]
       /\ thoughtBridges' = [thoughtBridges EXCEPT ![i] = BridgeAfterCall(@, k, outcome)]
       /\ UNCHANGED <<subCounter, now, activeThought, deliveries, polled, bodyBridges,
                      activeBody>>
       /\ LoopIdle

----------------------------------------------------------------------------
(* BodyBridge: construction, teardown and the end of an external call *)

\* BodyBridge.destroy on a bus value
BodyDestroy(b, i) ==
    BusUnsubscribe(BusUnsubscribe(b, bodyBridges[i].intentSubscriptionId),
                   bodyBridges[i].statusSubscriptionId)

\* clearInterval(pollInterval); activeTasks.clear()
BodyCleared(bridges, i) ==
    [bridges EXCEPT ![i].pollInterval = FALSE, ![i].activeTasks = {}]

\* new BodyBridge(bus): the previous instance is destroyed; the new one
\* subscribes as the body gateway to 'body-intent' and to 'body-status',
\* fetches the manifest and starts to poll
ConstructBodyBridge ==
    LET b0 == IF activeBody # 0 THEN BodyDestroy(BusValue, activeBody) ELSE BusValue
        old == IF activeBody # 0 THEN BodyCleared(bodyBridges, activeBody)
               ELSE bodyBridges
        b == [b0 EXCEPT !.subscriptions = @ \o
                <<[id |-> subCounter + 1, engineId |-> "body-gateway",
                   filtered |-> TRUE, signalTypes |-> {"body-intent"},
                   handler |-> "handleIntent", arg |-> 0],
                  [id |-> subCounter + 2, engineId |-> "body-gateway",
                   filtered |-> TRUE, signalTypes |-> {"body-status"},
                   handler |-> "fetchManifest", arg |-> 0]>>]
        x == FetchManifest(
                [BridgeValue EXCEPT !.body = Append(old,
                    NewBodyBridge(subCounter + 1, subCounter + 2))],
                Len(bodyBridges) + 1, now)
    IN /\ BusBecomes(b)
       /\ subCounter' = subCounter + 2
       /\ out' = Observe("new BodyBridge", <<subCounter + 1, subCounter + 2>>, b)
       /\ BridgesBecome(x)
       /\ activeBody' = Len(bodyBridges')
       /\ UNCHANGED <<now, activeThought>>
       /\ LoopIdle

\* BodyBridge.destroy
DestroyBodyBridge(i) ==
    LET b == BodyDestroy(BusValue, i)
    IN /\ BusBecomes(b)
       /\ out' = Observe("destroy", <<i>>, b)
       /\ bodyBridges' = BodyCleared(bodyBridges, i)
       /\ activeBody' = IF activeBody = i THEN 0 ELSE activeBody
       /\ UNCHANGED <<subCounter, now, payloads, thoughtBridges, activeThought,
                      external, deliveries, polled>>
       /\ LoopIdle

\* how an execute call can end: a task id, an error in the body, neither,
\* a response that is not ok, a rejection, a body that does not parse
ExecuteOutcomes == {"task", "error", "empty", "not-ok", "rejects", "unparseable"}

\* the failed 'body-feedback' the bridge emits
EmitFeedback(b, t) ==
    BusEmit(b, "body-feedback", "body-gateway", NoTarget, PRIORITY_MEDIUM, t,
            SIGNAL_TTL)

\* the external execute call k of a BodyBridge ends: handleIntent resumes
ResolveExecute(k, outcome) ==
    LET i == external[k].bridge
        b == IF outcome \in {"task", "empty"} THEN BusValue
             ELSE EmitFeedback(BusValue, now)
        emitted == b.signalCounter # signalCounter
    IN /\ external[k].kind = "execute"
       /\ external[k].outcome = "pending"
       /\ BusBecomes(b)
       /\ out' = Observe("resolve", <<k, outcome>>, b)
       /\ payloads' = IF emitted THEN payloads @@ (b.signalCounter :> "failed")
                      ELSE payloads
       /\ external' = [external EXCEPT ![k].outcome = Ended(outcome),
                                       ![k].result = IF emitted THEN b.signalCounter
                                                     ELSE 0]
       /\ bodyBridges' = IF outcome = "task"
                         THEN [bodyBridges EXCEPT ![i].activeTasks = @ \cup {k}]
                         ELSE bodyBridges
       /\ UNCHANGED <<subCounter, now, thoughtBridges, activeThought, activeBody,
                      deliveries, polled>>
       /\ LoopIdle

\* the external manifest call k of a BodyBridge ends: fetchManifest
\* resumes, keeps the manifest and emits it, or returns
ResolveManifest(k, outcome) ==
    LET i == external[k].bridge
        b == IF outcome = "ok"
             THEN BusEmit(BusValue, "body-manifest", "body-gateway", NoTarget,
                          PRIORITY_MEDIUM, now, SIGNAL_TTL)
             ELSE BusValue
    IN /\ external[k].kind = "manifest"
       /\ external[k].outcome = "pending"
       /\ BusBecomes(b)
       /\ out' = Observe("resolve", <<k, outcome>>, b)
       /\ payloads' = IF outcome = "ok" THEN payloads @@ (b.signalCounter :> "manifest")
                      ELSE payloads
       /\ external' = [external EXCEPT ![k].outcome = Ended(outcome),
                                       ![k].result = IF outcome = "ok"
                                                     THEN b.signalCounter ELSE 0]
       /\ bodyBridges' = IF outcome = "ok"
                         THEN [bodyBridges EXCEPT ![i].manifest = k]
                         ELSE bodyBridges
       /\ UNCHANGED <<subCounter, now, thoughtBridges, activeThought, activeBody,
                      deliveries, polled>>
       /\ LoopIdle

\* task.status as /api/body/tasks reports it
TaskStatuses == {"running", "completed", "failed"}

\* task.status === 'completed' || 'failed' || 'aborted'
Terminal(status) == status \in {"completed", "failed", "aborted"}

\* the bridges, the bus and the log of a poll as one value, threaded
\* through the loop over the tasks of a response
PollValue ==
    [b |-> BusValue, body |-> bodyBridges, payloads |-> payloads, polled |-> polled]

\* what the log keeps of a signal a poll emitted; a destroyed bridge has
\* no pollInterval
PollEntry(v, i, p, id, type, status) ==
    [poll |-> p, bridge |-> i, task |-> id, type |-> type, status |-> status,
     sig |-> v.b.signalCounter, destroyed |-> ~v.body[i].pollInterval]

\* the body of for (const task of tasks): a task that is not tracked is
\* skipped; else 'body-task-update' is emitted and, for a terminal
\* status, 'body-feedback', and the task is no longer tracked
PollOne(v, i, p, id, status, t) ==
    IF id \notin v.body[i].activeTasks THEN v
    ELSE LET b1 == BusEmit(v.b, "body-task-update", "body-gateway", NoTarget,
                           PRIORITY_MEDIUM, t, SIGNAL_TTL)
             v1 == [v EXCEPT !.b = b1,
                             !.payloads = @ @@ (b1.signalCounter :> "update")]
             v2 == [v1 EXCEPT !.polled = Append(@,
                       PollEntry(v1, i, p, id, "body-task-update", status))]
         IN IF ~Terminal(status) THEN v2
            ELSE LET b2 == BusEmit(v2.b, "body-feedback", "body-gateway", NoTarget,
                                   PRIORITY_MEDIUM, t, SIGNAL_TTL)
                     v3 == [v2 EXCEPT !.b = b2,
                                      !.payloads = @ @@ (b2.signalCounter :> status)]
                 IN [v3 EXCEPT !.polled = Append(@,
                                  PollEntry(v3, i, p, id, "body-feedback", status)),
                               !.body[i].activeTasks = @ \ {id}]

RECURSIVE PollEach(_, _, _, _, _, _)
\* for (const task of tasks) { ... }: the tasks of the response in the
\* order of their ids
PollEach(v, i, p, tasks, ids, t) ==
    IF ids = {} THEN v
    ELSE LET id == CHOOSE n \in ids : \A m \in ids : n <= m
         IN PollEach(PollOne(v, i, p, id, tasks[id], t), i, p, tasks, ids \ {id}, t)

\* the interval of a BodyBridge fires: pollTasks up to its first await,
\* the test of activeTasks and the fetch() it issues
PollTasks(i) ==
    /\ bodyBridges[i].pollInterval
    /\ bodyBridges[i].activeTasks # {}
    /\ BusBecomes(BusValue)
    /\ out' = Observe("pollTasks", <<i>>, BusValue)
    /\ external' = Append(external, [kind |-> "tasks", bridge |-> i, request |-> 0,
                                     at |-> now, outcome |-> "pending",
                                     result |-> 0])
    /\ UNCHANGED <<subCounter, now, payloads, thoughtBridges, activeThought,
                   bodyBridges, activeBody, deliveries, polled>>
    /\ LoopIdle

\* the tasks call p of a BodyBridge ends: pollTasks resumes with the tasks
\* of the response, or returns when the response is not ok
ResolveTasks(p, outcome, tasks) ==
    LET i == external[p].bridge
        v == IF outcome = "ok"
             THEN PollEach(PollValue, i, p, tasks, DOMAIN tasks, now)
             ELSE PollValue
    IN /\ external[p].kind = "tasks"
       /\ external[p].outcome = "pending"
       /\ BusBecomes(v.b)
       /\ out' = Observe("resolve", <<p, outcome>>, v.b)
       /\ payloads' = v.payloads
       /\ polled' = v.polled
       /\ bodyBridges' = v.body
       /\ external' = [external EXCEPT ![p].outcome = Ended(outcome)]
       /\ UNCHANGED <<subCounter, now, thoughtBridges, activeThought, activeBody,
                      deliveries>>
       /\ LoopIdle

----------------------------------------------------------------------------
(* BodyGatewayEngine *)

\* the gateway before the loop has registered it; manifest is <<>> for null
\* and <<m>> for the manifest m
NoGateway ==
    [subscriptionId |-> 0, lastTick |-> 0, tickCount |-> 0, signalsProcessed |-> 0,
     status |-> "idle", manifest |-> <<>>, activeTaskCount |-> 0,
     lastTaskStatus |-> "null"]

\* Tick: 100ms
TICK_RATE_BODY_GATEWAY == 100

\* subscribesTo() of the gateway
GatewaySignalTypes ==
    {"body-intent", "body-manifest", "body-feedback", "body-task-update",
     "motor-command"}

\* BodyManifest.capabilities, as far as the gateway reads them: the type of
\* the locomotion and manipulation capability or "null", the preset motions,
\* speech.tts (FALSE also where speech is null), the type of the expression
\* capability or "null"
Manifests ==
    {[displayName |-> "desk", locomotion |-> "null", presetMotions |-> {},
      manipulation |-> "null", tts |-> TRUE, expression |-> "null"],
     [displayName |-> "rover", locomotion |-> "wheeled", presetMotions |-> {"wave"},
      manipulation |-> "null", tts |-> FALSE, expression |-> "display-face"],
     [displayName |-> "stub", locomotion |-> "none", presetMotions |-> {},
      manipulation |-> "none", tts |-> FALSE, expression |-> "null"]}

\* BodyIntent, by its type; a gesture names its gesture, a composite lists
\* the types of its parts
Intent(type) == [type |-> type, gesture |-> "none", intents |-> <<>>]

Intents ==
    {Intent("move"), Intent("grasp"), Intent("speak"), Intent("express"),
     [Intent("gesture") EXCEPT !.gesture = "wave"],
     [Intent("composite") EXCEPT !.intents = <<"move">>]}

\* the gateway with the bus and the store, threaded through a tick
GatewayValue ==
    [b |-> BusValue, payloads |-> payloads, store |-> StoreValue, g |-> gateway,
     raised |-> FALSE]

\* Engine.emit of the gateway: source is the engine, no target
GatewayEmit(w, type, payload, t) ==
    [w EXCEPT !.b = BusEmit(@, type, "body-gateway", NoTarget, PRIORITY_MEDIUM,
                            t, SIGNAL_TTL),
              !.payloads = @ @@ ((w.b.signalCounter + 1) :> payload)]

\* the payload of a 'body-feedback' the gateway emits
FailedFeedback(error) == [taskId |-> "", status |-> "failed", error |-> error]

\* BodyGatewayEngine.quickCapabilityCheck: the error, or "null"
QuickCapabilityCheck(manifest, intent) ==
    CASE intent.type = "move" /\ manifest.locomotion \in {"null", "none"} ->
            "no-locomotion"
      [] intent.type = "grasp" /\ manifest.manipulation = "null" ->
            "no-manipulation"
      [] intent.type = "speak" /\ ~manifest.tts ->
            "no-tts"
      [] /\ intent.type = "gesture"
         /\ ~(manifest.locomotion # "null" /\ intent.gesture \in manifest.presetMotions)
         /\ manifest.manipulation = "null" ->
            "unknown-gesture"
      [] OTHER -> "null"

\* BodyGatewayEngine.handleIntent
GatewayHandleIntent(w, intent, t) ==
    IF w.g.manifest = <<>>
    THEN GatewayEmit(w, "body-feedback", FailedFeedback("no-body"), t)
    ELSE LET capError == QuickCapabilityCheck(w.g.manifest[1], intent)
         IN IF capError # "null"
            THEN LET w1 == GatewayEmit(w, "body-feedback", FailedFeedback(capError), t)
                 IN [w1 EXCEPT !.store =
                        StorePushStream(StoreNudge(@, "valence", 0 - 100),
                                        "cant-do-that")]
            ELSE w

\* BodyGatewayEngine.handleFeedback
GatewayHandleFeedback(w, payload) ==
    LET done == [w EXCEPT !.g.activeTaskCount = Max(0, @ - 1),
                          !.g.lastTaskStatus = payload.status]
    IN CASE payload.status = "completed" ->
              [done EXCEPT !.store =
                  StorePushStream(StoreNudge(StoreNudge(@, "confidence", 200),
                                             "energy", 0 - 100),
                                  "completed")]
         [] payload.status = "failed" ->
              [done EXCEPT !.store =
                  StorePushStream(StoreNudge(StoreNudge(@, "confidence", 0 - 300),
                                             "arousal", 200),
                                  "couldnt-complete")]
         [] payload.status = "aborted" -> done
         [] OTHER -> w

\* BodyGatewayEngine.handleTaskUpdate
GatewayHandleTaskUpdate(w, payload) ==
    IF payload.status = "executing"
    THEN [w EXCEPT !.g.activeTaskCount = Max(1, @), !.g.status = "processing"]
    ELSE w

\* one round of the loop in process()
GatewayProcessOne(w, signal, t) ==
    LET payload == PayloadOf(w.payloads, signal.id)
    IN CASE signal.type = "body-manifest" ->
              GatewayEmit([w EXCEPT !.g.manifest = <<payload>>], "body-status",
                          [connected |-> TRUE], t)
         [] signal.type = "body-intent" -> GatewayHandleIntent(w, payload, t)
         [] signal.type = "body-feedback" -> GatewayHandleFeedback(w, payload)
         [] signal.type = "body-task-update" -> GatewayHandleTaskUpdate(w, payload)
         [] signal.type = "motor-command" ->
              IF payload.action = "halt" THEN w
              ELSE GatewayEmit(w, "body-intent",
                               [Intent("gesture") EXCEPT !.gesture = payload.action], t)
         [] OTHER -> w

RECURSIVE GatewayProcess(_, _, _)
\* BodyGatewayEngine.process
GatewayProcess(w, signals, t) ==
    IF signals = <<>>
    THEN [w EXCEPT !.g.status = IF w.g.activeTaskCount > 0 THEN "processing"
                                ELSE "idle"]
    ELSE GatewayProcess(GatewayProcessOne(w, Head(signals), t), Tail(signals), t)

\* Engine.tick of the gateway on a value
GatewayTicked(w, t) ==
    IF t - w.g.lastTick < TICK_RATE_BODY_GATEWAY THEN w
    ELSE LET w1 == [w EXCEPT !.g.lastTick = t, !.g.tickCount = @ + 1]
             signals == w1.b.inbox["body-gateway"]
         IN IF Len(signals) > 0
            THEN GatewayProcess(
                    [w1 EXCEPT !.g.status = "processing",
                               !.b.inbox["body-gateway"] = <<>>,
                               !.g.signalsProcessed = @ + Len(signals)],
                    signals, t)
            ELSE [w1 EXCEPT !.g.status = "idle"]

\* Engine.init of the gateway: it subscribes its inbox to its signal types
InitGateway ==
    /\ gateway.subscriptionId = 0
    /\ LET b == [BusValue EXCEPT !.subscriptions = Append(@,
                    [id |-> subCounter + 1, engineId |-> "body-gateway",
                     filtered |-> TRUE, signalTypes |-> GatewaySignalTypes,
                     handler |-> "inbox", arg |-> 0])]
       IN /\ BusBecomes(b)
          /\ subCounter' = subCounter + 1
          /\ out' = Observe("subscribe", <<subCounter + 1>>, b)
    /\ gateway' = [gateway EXCEPT !.subscriptionId = subCounter + 1]
    /\ frame' = NoFrame
    /\ UNCHANGED <<now, engines, registry, running, rafId, rafCounter, hostPending,
                   frameTime, loopTickCount, frameCounter, lastActiveSignals,
                   lastDriveEval, mind, applied, proxy>>
    /\ SelfUntouched
    /\ BridgeUntouched

\* Engine.tick(now) of the gateway
GatewayTick ==
    /\ gateway.subscriptionId # 0
    /\ LET w == GatewayTicked(GatewayValue, now)
       IN /\ BusBecomes(w.b)
          /\ out' = Observe("tick", <<Len(inbox["body-gateway"])>>, w.b)
          /\ gateway' = w.g
          /\ payloads' = w.payloads
          /\ targetState' = w.store.targetState
          /\ stream' = w.store.stream
          /\ streamArrays' = w.store.streamArrays
          /\ cachedStream' = w.store.cachedStream
          /\ pushed' = w.store.pushed
          /\ selfCalls' = selfCalls + w.store.calls
          /\ settled' = IF w.store.wrote THEN 0 ELSE settled
          /\ selfOut' = [op |-> "tick", dims |-> {}, ret |-> <<>>]
          /\ frame' = [op |-> "tick", steps |-> <<>>, threw |-> w.raised]
    /\ UNCHANGED <<subCounter, now, engines, registry, running, rafId, rafCounter,
                   hostPending, frameTime, loopTickCount, frameCounter,
                   lastActiveSignals, lastDriveEval, mind, applied, proxy>>
    /\ UNCHANGED <<current, snapshots, cachedSnapshot, streamReads, driveEvals,
                   lastExternalInput>>
    /\ UNCHANGED <<thoughtBridges, activeThought, bodyBridges, activeBody,
                   external, deliveries, polled>>

----------------------------------------------------------------------------
(* The engines between a text input and the reply *)

\* the engines in the order in which MindProvider registers them
MindEngines == <<"text-input", "perception", "attention", "binder", "arbiter">>

\* subscribesTo() of each of them
MindSignalTypes(e) ==
    CASE e = "text-input" -> {"text-input"}
      [] e = "perception" -> {"text-input", "camera-frame", "speech-text"}
      [] e = "attention" -> {"perception-result", "intuition-alert", "safety-alert"}
      [] e = "binder" -> {"attention-focus", "memory-result", "empathic-state"}
      [] e = "arbiter" ->
           {"bound-representation", "claude-response", "value-violation",
            "safety-alert", "empathic-state", "hope-worry-update", "tom-inference",
            "emotion-detected", "memory-result", "strategy-update",
            "working-memory-update", "discourse-state", "metacognition-update"}

\* the fields of an Engine after its constructor
NewMindEngine ==
    [subscriptionId |-> 0, lastTick |-> 0, tickCount |-> 0, signalsProcessed |-> 0,
     status |-> "idle"]

\* the engines before they are registered.  currentFocus is <<>> for null;
\* the arbiter's latest* fields only fill the payload of the 'thought'
NoMind ==
    [order |-> <<>>,
     eng |-> [e \in SeqRange(MindEngines) |->
                CASE e = "attention" ->
                       [subscriptionId |-> 0, lastTick |-> 0, tickCount |-> 0,
                        signalsProcessed |-> 0, status |-> "idle",
                        currentFocus |-> <<>>]
                  [] e = "binder" ->
                       [subscriptionId |-> 0, lastTick |-> 0, tickCount |-> 0,
                        signalsProcessed |-> 0, status |-> "idle",
                        recentFoci |-> <<>>, memoryContext |-> <<>>]
                  [] e = "arbiter" ->
                       [subscriptionId |-> 0, lastTick |-> 0, tickCount |-> 0,
                        signalsProcessed |-> 0, status |-> "idle",
                        pendingDecisions |-> <<>>, lastResponseTime |-> 0,
                        waitingForClaude |-> FALSE, energyDeferralCount |-> 0]
                  [] OTHER -> NewMindEngine]]

\* the texts a user sends; both emitters send trimmed, non-empty text
Texts == {"hello", "why?", "help!"}

\* text.includes('?'), text.includes('!'), and the test of isUrgent
WithQuestionMark == {"why?"}
WithExclamation == {"help!"}
UrgentTexts == {"help!"}

\* PerceptionEngine.estimateTextSalience; none of Texts is longer than 50
\* characters or holds an emotional keyword
EstimateTextSalience(text) ==
    Min(ONE, 5000 + (IF text \in WithQuestionMark THEN 2000 ELSE 0)
                  + (IF text \in WithExclamation THEN 1000 ELSE 0))

\* what the stubbed inference returns: {text: "ok", emotionShift: {valence: 0.1}}
StubResponse == [text |-> "ok", emotionShift |-> <<[valence |-> Number(1000)]>>]

\* the fallback of the bridge's catch block
FallbackResponse ==
    [text |-> "fallback",
     emotionShift |-> <<[confidence |-> Number(0 - 1000), energy |-> Number(0 - 500)]>>]

\* the payload of a 'claude-response': the parsed body or the fallback
ResponseOf(payload) == IF payload = "result" THEN StubResponse ELSE FallbackResponse

\* the engines with the bus and the store, threaded through a frame; get
\* is what selfState.get() returns during the tick pass, date is Date.now()
MindValue ==
    [b |-> BusValue, payloads |-> payloads, store |-> StoreValue, m |-> mind,
     applied |-> applied, get |-> Get, date |-> now]

\* Engine.emit
MindEmit(w, e, type, target, priority, payload, t) ==
    [w EXCEPT !.b = BusEmit(@, type, e, target, priority, t, SIGNAL_TTL),
              !.payloads = @ @@ ((w.b.signalCounter + 1) :> payload)]

RECURSIVE TextInputProcess(_, _, _)
\* TextInputEngine.process
TextInputProcess(w, signals, t) ==
    IF signals = <<>> THEN [w EXCEPT !.m.eng["text-input"].status = "idle"]
    ELSE TextInputProcess(
            IF Head(signals).type = "text-input"
            THEN [w EXCEPT !.store =
                    StorePushStream(
                       StoreNudge(StoreNudge(StoreMarkExternalInput(@, t),
                                             "social", 500),
                                  "arousal", 300),
                       "emotional")]
            ELSE w,
            Tail(signals), t)

\* one round of the loop in PerceptionEngine.process
PerceptionProcessOne(w, signal, t) ==
    LET payload == PayloadOf(w.payloads, signal.id)
    IN CASE signal.type = "text-input" ->
              LET result == [type |-> "text", content |-> payload.text,
                             timestamp |-> payload.timestamp,
                             salience |-> EstimateTextSalience(payload.text)]
              IN MindEmit(MindEmit(w, "perception", "perception-result",
                                   OneTarget("attention"), PRIORITY_HIGH, result, t),
                          "perception", "perception-result",
                          OneTarget("emotion-inference"), PRIORITY_MEDIUM, result, t)
         [] signal.type = "camera-frame" ->
              MindEmit(w, "perception", "perception-result", OneTarget("attention"),
                       PRIORITY_MEDIUM,
                       [type |-> "visual", content |-> "[visual frame]",
                        timestamp |-> t, salience |-> 5000], t)
         [] signal.type = "speech-text" ->
              MindEmit(w, "perception", "perception-result", OneTarget("attention"),
                       PRIORITY_HIGH,
                       [type |-> "text", content |-> payload.text, timestamp |-> t,
                        salience |-> EstimateTextSalience(payload.text) + 1000], t)
         [] OTHER -> w

RECURSIVE PerceptionProcess(_, _, _)
\* PerceptionEngine.process
PerceptionProcess(w, signals, t) ==
    IF signals = <<>> THEN [w EXCEPT !.m.eng["perception"].status = "idle"]
    ELSE PerceptionProcess(PerceptionProcessOne(w, Head(signals), t), Tail(signals), t)

\* scored.sort((a, b) => b.score - a.score)[0]: every score is the salience
\* times one positive factor, so the winner is the first perception of the
\* highest salience
Winner(perceptions) ==
    LET best == CHOOSE i \in DOMAIN perceptions :
                   /\ \A j \in DOMAIN perceptions :
                         perceptions[j].salience <= perceptions[i].salience
                   /\ \A j \in 1..(i - 1) :
                         perceptions[j].salience < perceptions[i].salience
    IN perceptions[best]

\* AttentionEngine.process after its loop
AttentionSelect(w, perceptions, t) ==
    IF perceptions = <<>> THEN w
    ELSE LET winner == Winner(perceptions)
             focus == [content |-> winner.content, modality |-> winner.type,
                       salience |-> winner.salience, timestamp |-> winner.timestamp]
             w1 == [w EXCEPT !.m.eng["attention"].currentFocus = <<focus>>]
             w2 == MindEmit(w1, "attention", "attention-focus", OneTarget("binder"),
                            PRIORITY_HIGH, focus, t)
             w3 == MindEmit(w2, "attention", "attention-focus", OneTarget("memory"),
                            PRIORITY_MEDIUM, focus, t)
         IN [w3 EXCEPT !.m.eng["attention"].status = "idle"]

RECURSIVE AttentionProcess(_, _, _, _)
\* AttentionEngine.process: a 'safety-alert' takes the focus and ends it
AttentionProcess(w, signals, perceptions, t) ==
    IF signals = <<>> THEN AttentionSelect(w, perceptions, t)
    ELSE LET signal == Head(signals)
             payload == PayloadOf(w.payloads, signal.id)
         IN CASE signal.type = "perception-result" ->
                   AttentionProcess(w, Tail(signals), Append(perceptions, payload), t)
              [] signal.type = "safety-alert" ->
                   LET focus == [content |-> payload.message, modality |-> "text",
                                 salience |-> ONE, timestamp |-> t]
                   IN MindEmit([w EXCEPT !.m.eng["attention"].currentFocus = <<focus>>],
                               "attention", "attention-focus", OneTarget("binder"),
                               PRIORITY_CRITICAL, focus, t)
              [] signal.type = "intuition-alert" ->
                   AttentionProcess(
                      [w EXCEPT !.store = StoreNudge(StoreNudge(@, "arousal", 500),
                                                     "curiosity", 1000)],
                      Tail(signals), perceptions, t)
              [] OTHER -> AttentionProcess(w, Tail(signals), perceptions, t)

\* AttentionEngine.onIdle: the focus decays after 5000 ms
AttentionOnIdle(w, t) ==
    LET a == w.m.eng["attention"]
    IN [w EXCEPT !.m.eng["attention"].status = "idle",
                 !.m.eng["attention"].currentFocus =
                    IF a.currentFocus # <<>> /\ t - a.currentFocus[1].timestamp > 5000
                    THEN <<>> ELSE @]

\* push, and shift once more than five are kept
PushFocus(foci, focus) ==
    IF Len(foci) + 1 > 5 THEN Tail(Append(foci, focus)) ELSE Append(foci, focus)

\* BinderEngine.process after its loop
BinderBind(w, hasNewFocus, t) ==
    IF ~hasNewFocus THEN w
    ELSE LET foci == w.m.eng["binder"].recentFoci
             latestFocus == foci[Len(foci)]
             memories == w.m.eng["binder"].memoryContext
             bound == [content |-> latestFocus.content,
                       context |-> SubSeq(memories, 1, Min(3, Len(memories)))
                                   \o [i \in 1..(Len(foci) - 1) |-> foci[i].content],
                       needsClaude |-> /\ latestFocus.modality = "text"
                                       /\ latestFocus.content # ""]
             w1 == MindEmit(w, "binder", "bound-representation", OneTarget("arbiter"),
                            PRIORITY_HIGH, bound, t)
             w2 == MindEmit(w1, "binder", "bound-representation",
                            ListTarget({"tom", "imagination", "growth"}),
                            PRIORITY_MEDIUM, bound, t)
         IN [w2 EXCEPT !.m.eng["binder"].status = "idle"]

RECURSIVE BinderProcess(_, _, _, _)
\* BinderEngine.process
BinderProcess(w, signals, hasNewFocus, t) ==
    IF signals = <<>> THEN BinderBind(w, hasNewFocus, t)
    ELSE LET signal == Head(signals)
             payload == PayloadOf(w.payloads, signal.id)
         IN CASE signal.type = "attention-focus" ->
                   BinderProcess([w EXCEPT !.m.eng["binder"].recentFoci =
                                              PushFocus(@, payload)],
                                 Tail(signals), TRUE, t)
              [] signal.type = "memory-result" ->
                   BinderProcess([w EXCEPT !.m.eng["binder"].memoryContext =
                                              payload.items],
                                 Tail(signals), hasNewFocus, t)
              [] OTHER -> BinderProcess(w, Tail(signals), hasNewFocus, t)

\* a branch that skips applyShift
ArbiterRespondWithoutShift(w, signal, t) ==
    LET response == ResponseOf(PayloadOf(w.payloads, signal.id))
        w1 == [w EXCEPT !.m.eng["arbiter"].waitingForClaude = FALSE,
                        !.m.eng["arbiter"].pendingDecisions = <<>>,
                        !.m.eng["arbiter"].energyDeferralCount = 0]
    IN MindEmit(w1, "arbiter", "voice-output", OneTarget("voice"),
                PRIORITY_HIGH, [text |-> response.text], t)

\* the 'claude-response' branch of ArbiterEngine.process
ArbiterRespond(w, signal, t) ==
    LET response == ResponseOf(PayloadOf(w.payloads, signal.id))
        w1 == [w EXCEPT !.m.eng["arbiter"].waitingForClaude = FALSE,
                        !.m.eng["arbiter"].pendingDecisions = <<>>,
                        !.m.eng["arbiter"].energyDeferralCount = 0]
        w2 == IF response.emotionShift # <<>>
              THEN [w1 EXCEPT
                      !.store = StoreApplyShift(@, response.emotionShift[1]),
                      !.applied = Append(@,
                         [sig |-> signal.id, shift |-> response.emotionShift[1],
                          before |-> w1.store.targetState,
                          after |-> StoreApplyShift(w1.store,
                                       response.emotionShift[1]).targetState])]
              ELSE w1
        w3 == MindEmit(w2, "arbiter", "voice-output", OneTarget("voice"),
                       PRIORITY_HIGH, [text |-> response.text], t)
        w4 == MindEmit(w3, "arbiter", "expression-update", OneTarget("expression"),
                       PRIORITY_MEDIUM, [speaking |-> TRUE, text |-> response.text], t)
        w5 == MindEmit(w4, "arbiter", "memory-significance", OneTarget("memory-write"),
                       PRIORITY_LOW, [content |-> response.text, type |-> "response"], t)
    IN [w5 EXCEPT !.m.eng["arbiter"].lastResponseTime = t]

\* one round of the loop in ArbiterEngine.process
ArbiterProcessOne(w, signal, t) ==
    CASE signal.type = "bound-representation" ->
           [w EXCEPT !.m.eng["arbiter"].pendingDecisions =
                        Append(@, PayloadOf(w.payloads, signal.id))]
      [] signal.type = "claude-response" -> ArbiterRespond(w, signal, t)
      [] signal.type = "value-violation" ->
           [w EXCEPT !.m.eng["arbiter"].pendingDecisions = <<>>]
      [] signal.type = "safety-alert" ->
           [w EXCEPT !.m.eng["arbiter"].pendingDecisions = <<>>,
                     !.m.eng["arbiter"].waitingForClaude = FALSE]
      [] OTHER -> w

\* ArbiterEngine.process after its loop: the first pending decision is
\* taken, the others are dropped, and the decision is deferred or sent on
ArbiterDecide(w, t) ==
    LET a == w.m.eng["arbiter"]
    IN IF a.pendingDecisions # <<>> /\ ~a.waitingForClaude
       THEN LET decision == Head(a.pendingDecisions)
                w1 == [w EXCEPT !.m.eng["arbiter"].pendingDecisions = <<>>]
            IN IF decision.needsClaude
               THEN IF /\ w.get.energy < 1000
                       /\ decision.content \notin UrgentTexts
                       /\ a.energyDeferralCount < 3
                    THEN [w1 EXCEPT !.m.eng["arbiter"].energyDeferralCount = @ + 1,
                                    !.store = StoreNudge(@, "energy", 100),
                                    !.m.eng["arbiter"].status = "idle"]
                    ELSE LET w2 == [w1 EXCEPT
                                      !.m.eng["arbiter"].waitingForClaude = TRUE,
                                      !.m.eng["arbiter"].status = "waiting"]
                             w3 == MindEmit(w2, "arbiter", "memory-significance",
                                            OneTarget("memory-write"), PRIORITY_LOW,
                                            [content |-> decision.content,
                                             type |-> "user-input"], t)
                             w4 == MindEmit(w3, "arbiter", "thought", NoTarget,
                                            PRIORITY_HIGH, decision.content, t)
                         IN [w4 EXCEPT !.store =
                               StoreNudge(StoreNudge(StoreGetStream(@),
                                                     "confidence", 200),
                                          "energy", 0 - 100)]
               ELSE [w1 EXCEPT !.m.eng["arbiter"].status = "idle"]
       ELSE [w EXCEPT !.m.eng["arbiter"].status =
                         IF a.waitingForClaude THEN "waiting" ELSE "idle"]

RECURSIVE ArbiterProcess(_, _, _)
\* ArbiterEngine.process
ArbiterProcess(w, signals, t) ==
    IF signals = <<>> THEN ArbiterDecide(w, t)
    ELSE ArbiterProcess(ArbiterProcessOne(w, Head(signals), t), Tail(signals), t)

\* process(signals) of the engine e
MindProcess(w, e, signals, t) ==
    CASE e = "text-input" -> TextInputProcess(w, signals, t)
      [] e = "perception" -> PerceptionProcess(w, signals, t)
      [] e = "attention" -> AttentionProcess(w, signals, <<>>, t)
      [] e = "binder" -> BinderProcess(w, signals, FALSE, t)
      [] e = "arbiter" -> ArbiterProcess(w, signals, t)

\* Engine.tick(now) of the engine e; process() and onIdle() read Date.now()
MindTicked(w, e, t) ==
    IF TooEarly(w.m.eng[e], e, t) THEN w
    ELSE LET w1 == [w EXCEPT !.m.eng[e].lastTick = t, !.m.eng[e].tickCount = @ + 1]
             signals == w1.b.inbox[e]
         IN IF Len(signals) > 0
            THEN MindProcess([w1 EXCEPT !.m.eng[e].status = "processing",
                                        !.b.inbox[e] = <<>>,
                                        !.m.eng[e].signalsProcessed = @ + Len(signals)],
                             e, signals, w.date)
            ELSE IF e = "attention" THEN AttentionOnIdle(w1, w.date)
                 ELSE [w1 EXCEPT !.m.eng[e].status = "idle"]

RECURSIVE MindTickAll(_, _, _)
\* for (const engine of this.engines.values()) engine.tick(now)
MindTickAll(w, order, t) ==
    IF order = <<>> THEN w
    ELSE MindTickAll(MindTicked(w, Head(order), t), Tail(order), t)

RECURSIVE EmitDrives(_, _, _, _)
\* for (const drive of drives) { bus.emit('drive-pulse'); pushStream(urge) }
EmitDrives(w, pulses, k, t) ==
    IF k > Len(DriveOrder) THEN w
    ELSE IF DriveOrder[k] \in pulses
         THEN EmitDrives(
                 [MindEmit(w, "attention", "drive-pulse", NoTarget, PRIORITY_IDLE,
                           DriveOrder[k], t)
                    EXCEPT !.store = StorePushStream(@, "urge")],
                 pulses, k + 1, t)
         ELSE EmitDrives(w, pulses, k + 1, t)

\* MindProvider's effect: the engines are registered in order, each
\* subscribing its inbox to its signal types, and a ThoughtBridge is made
MountMind ==
    /\ mind.order = <<>>
    /\ ~running
    /\ activeThought = 0
    /\ LET n == Len(MindEngines)
           subs == [i \in 1..n |->
                      [id |-> subCounter + i, engineId |-> MindEngines[i],
                       filtered |-> TRUE,
                       signalTypes |-> MindSignalTypes(MindEngines[i]),
                       handler |-> "inbox", arg |-> 0]]
           bridge == [id |-> subCounter + n + 1, engineId |-> "arbiter",
                      filtered |-> TRUE, signalTypes |-> {"thought"},
                      handler |-> "handleThought", arg |-> 0]
           b == [BusValue EXCEPT !.subscriptions = Append(@ \o subs, bridge)]
       IN /\ BusBecomes(b)
          /\ subCounter' = subCounter + n + 1
          /\ out' = Observe("mount", <<>>, b)
          /\ mind' = [order |-> MindEngines,
                      eng |-> [e \in SeqRange(MindEngines) |->
                                 [mind.eng[e] EXCEPT !.subscriptionId =
                                    subCounter + CHOOSE i \in 1..n : MindEngines[i] = e]]]
          /\ thoughtBridges' = Append(thoughtBridges, NewThoughtBridge(subCounter + n + 1))
          /\ activeThought' = Len(thoughtBridges')
    /\ frame' = NoFrame
    /\ UNCHANGED <<now, engines, registry, running, rafId, rafCounter, hostPending,
                   frameTime, loopTickCount, frameCounter, lastActiveSignals,
                   lastDriveEval, gateway, applied, proxy>>
    /\ UNCHANGED <<payloads, bodyBridges, activeBody, external, deliveries, polled>>
    /\ SelfUntouched

\* the user sends a text: bus.emit of a broadcast 'text-input'
EmitText(text) ==
    /\ running
    /\ EmitWith("text-input", "text-input", NoTarget, PRIORITY_HIGH,
                [text |-> text, timestamp |-> now])

\* CognitiveLoop.loop(t) with the engines of MindProvider, dt ms after the
\* previous pass: the engines tick in order, the bus is flushed, the store
\* is updated, its drives are evaluated and emitted, the observers are
\* notified and the next frame is requested
MindLoop(id, dt, breath) ==
    LET t == frameTime + dt
        date == now + dt
        l1 == [World EXCEPT !.running = TRUE, !.hostPending = @ \ {id},
                            !.loopTickCount = @ + 1, !.frameCounter = @ + 1]
    IN \E w1 \in {MindTickAll([MindValue EXCEPT !.date = date], mind.order, t)} :
       \E fb \in {BusFlush(w1.b, date)} :
       \E x \in {BridgesAfter([BridgeValue EXCEPT !.payloads = w1.payloads],
                              fb.calls, date)} :
       \E changed \in {\E d \in DimensionSet :
                          OffTarget(current, w1.store.targetState, d)} :
       \E cur \in {Lerp(current, w1.store.targetState)} :
       \E limited \in {RateLimited(lastDriveEval, date)} :
       \E pulses \in {IF limited THEN {}
                      ELSE DrivesFor(cur, date, w1.store.lastExternalInput)} :
       \E w2 \in {EmitDrives([w1 EXCEPT !.b = fb, !.payloads = x.payloads,
                                        !.store.targetState = Decay(@, breath)],
                             pulses, 1, date)} :
       \E l2 \in {RequestFrame(LoopNotify(
                     [l1 EXCEPT !.b = fb,
                                !.lastActiveSignals = IF Len(fb.processed) > 0
                                                      THEN fb.processed ELSE @],
                     changed))} :
          /\ now' = date
          /\ frameTime' = t
          /\ BusBecomes(w2.b)
          /\ out' = Observe("loop", fb.processed, fb)
          /\ mind' = w2.m
          /\ applied' = w2.applied
          /\ payloads' = w2.payloads
          /\ thoughtBridges' = x.thought
          /\ bodyBridges' = x.body
          /\ external' = x.external
          /\ deliveries' = x.deliveries
          /\ polled' = polled
          /\ current' = cur
          /\ targetState' = w2.store.targetState
          /\ snapshots' = IF changed THEN NewSnapshot(snapshots, cachedSnapshot, cur)
                          ELSE snapshots
          /\ cachedSnapshot' = IF changed THEN Len(snapshots') ELSE cachedSnapshot
          /\ stream' = w2.store.stream
          /\ streamArrays' = w2.store.streamArrays
          /\ cachedStream' = w2.store.cachedStream
          /\ pushed' = w2.store.pushed
          /\ lastExternalInput' = w2.store.lastExternalInput
          /\ lastDriveEval' = IF limited THEN lastDriveEval
                              ELSE Stamp(lastDriveEval, pulses, date)
          /\ driveEvals' = Append(driveEvals, [at |-> date, pulses |-> pulses])
          /\ settled' = (IF w1.store.wrote THEN 0 ELSE settled) + 1
          /\ selfCalls' = selfCalls + w2.store.calls + 2
          /\ selfOut' = [op |-> "update", dims |-> {}, ret |-> <<changed>>]
          /\ running' = l2.running
          /\ rafId' = l2.rafId
          /\ rafCounter' = l2.rafCounter
          /\ hostPending' = l2.hostPending
          /\ loopTickCount' = l2.loopTickCount
          /\ frameCounter' = l2.frameCounter
          /\ lastActiveSignals' = l2.lastActiveSignals
          /\ frame' = [op |-> "frame", steps |-> l2.steps, threw |-> FALSE]
          /\ streamReads' = w2.store.streamReads
          /\ UNCHANGED <<subCounter, engines, registry, gateway, proxy>>
          /\ UNCHANGED <<activeThought, activeBody>>

\* loop.start() of MindProvider: loop(performance.now()) runs at once
StartMind(breath) ==
    /\ mind.order # <<>>
    /\ ~running
    /\ MindLoop(0, 0, breath)

\* the host calls the frame callback it was asked for, dt ms after the
\* previous pass
MindFrame(id, dt, breath) ==
    /\ mind.order # <<>>
    /\ running
    /\ id \in hostPending
    /\ MindLoop(id, dt, breath)

----------------------------------------------------------------------------
(* createShiftFilteringStream: the proxy of a streamed response *)

\* \s of a regular expression, as far as the responses hold it
Whitespace == {" ", "\n", "\t"}

\* whether pat occurs in text at index i (from 1)
StartsAt(text, i, pat) ==
    /\ i >= 1
    /\ i + Len(pat) - 1 <= Len(text)
    /\ SubSeq(text, i, i + Len(pat) - 1) = pat

\* \s* between i and j
AllSpace(text, i, j) == \A k \in i..j : text[k] \in Whitespace

\* text.slice(-n)
SliceLast(text, n) ==
    IF Len(text) > n THEN SubSeq(text, Len(text) - n + 1, Len(text)) ELSE text

\* looksLikeShiftStarting: /---\s*$/.test(tail) || /SHIFT/.test(tail)
LooksLikeShiftStarting(text) ==
    LET tail == SliceLast(text, TAIL_LENGTH)
    IN \/ \E i \in 1..Len(tail) :
             /\ StartsAt(tail, i, <<"-", "-", "-">>)
             /\ AllSpace(tail, i + 3, Len(tail))
       \/ \E i \in 1..Len(tail) : StartsAt(tail, i, <<"S", "H", "I", "F", "T">>)

\* SHIFT:\s*\{ at index i
ShiftAt(text, i) ==
    /\ StartsAt(text, i, <<"S", "H", "I", "F", "T", ":">>)
    /\ \E j \in (i + 6)..Len(text) : AllSpace(text, i + 6, j - 1) /\ text[j] = "{"

\* \n---[\s\n]*SHIFT:\s*\{ at index i
DashShiftAt(text, i) ==
    /\ StartsAt(text, i, <<"\n", "-", "-", "-">>)
    /\ \E j \in (i + 4)..Len(text) : AllSpace(text, i + 4, j - 1) /\ ShiftAt(text, j)

\* \nSHIFT:\s*\{ at index i
BareShiftAt(text, i) ==
    /\ StartsAt(text, i, <<"\n">>)
    /\ ShiftAt(text, i + 1)

\* String.search: the index (from 0) of the first match, or -1; matches
\* holds the indices (from 1) at which the pattern matches
Search(matches) ==
    IF matches # {}
    THEN (CHOOSE i \in matches : \A j \in matches : i <= j) - 1
    ELSE 0 - 1

\* findShiftBlockStart
FindShiftBlockStart(text) ==
    LET dashShift == Search({i \in 1..Len(text) : DashShiftAt(text, i)})
        bareShift == Search({i \in 1..Len(text) : BareShiftAt(text, i)})
    IN IF dashShift >= 0 THEN dashShift
       ELSE IF bareShift >= 0 THEN bareShift
       ELSE 0 - 1

\* parseShiftFromText(text).emotionShift is defined: the text matches
\* /\nSHIFT:\s*(\{[^}]+\})/ (the objects of the responses are valid JSON)
HasEmotionShift(text) ==
    \E i \in 1..Len(text) :
       /\ StartsAt(text, i, <<"\n", "S", "H", "I", "F", "T", ":">>)
       /\ \E j \in (i + 7)..Len(text), k \in (i + 7)..Len(text) :
             /\ AllSpace(text, i + 7, j - 1)
             /\ text[j] = "{"
             /\ k > j + 1
             /\ text[k] = "}"
             /\ \A m \in (j + 1)..(k - 1) : text[m] # "}"

\* the closure variables of a stream before it is made; response is what
\* the model will send (its text and, at the end of it, its SHIFT block),
\* sent counts the characters and upstream the events sent so far
NoProxy ==
    [stage |-> "none", response |-> [body |-> <<>>, block |-> <<>>],
     sent |-> 0, upstream |-> 0,
     accumulatedText |-> <<>>, pendingTextEvents |-> <<>>, buffering |-> FALSE,
     downstream |-> <<>>, updated |-> FALSE]

\* the SHIFT block of a response, with and without the separator line
DashBlock ==
    <<"\n", "-", "-", "-", "\n", "S", "H", "I", "F", "T", ":", "{", "v", "}">>
BareBlock == <<"\n", "S", "H", "I", "F", "T", ":", "{", "v", "}">>

\* what the model answers: text with a block after a separator, text with
\* a bare block, text with a rule and with the word SHIFT and no block,
\* and text with a rule followed by more text and a block
Responses ==
    {[body |-> <<"a">>, block |-> DashBlock],
     [body |-> <<"a">>, block |-> BareBlock],
     [body |-> <<"-", "-", "-", "\n", "b">>, block |-> <<>>],
     [body |-> <<"S", "H", "I", "F", "T", "b">>, block |-> <<>>],
     [body |-> <<"-", "-", "-", "b">>, block |-> BareBlock]}

\* a parsed SSE event (parseSSEEvent); n is its place in the upstream and
\* lo and hi are the places of its text in the response
TextDeltaEvent(f, k) ==
    [isTextDelta |-> TRUE, type |-> "content_block_delta",
     text |-> SubSeq(f.response.body \o f.response.block, f.sent + 1, f.sent + k),
     n |-> f.upstream + 1, lo |-> f.sent + 1, hi |-> f.sent + k]

OtherEvent(f, type) ==
    [isTextDelta |-> FALSE, type |-> type, text |-> <<>>, n |-> f.upstream + 1,
     lo |-> 0, hi |-> 0]

\* controller.enqueue(encoder.encode(evt + '\n\n')); at is the number of
\* events upstream had sent when the consumer received this one
Enqueue(f, event) ==
    [f EXCEPT !.downstream = Append(@, [event |-> event, at |-> f.upstream])]

\* processEvent
ProcessEvent(f, event) ==
    LET text == IF event.isTextDelta THEN f.accumulatedText \o event.text
                ELSE f.accumulatedText
        buffering == IF event.isTextDelta
                     THEN f.buffering \/ LooksLikeShiftStarting(text)
                     ELSE f.buffering
        f1 == [f EXCEPT !.accumulatedText = text, !.buffering = buffering]
    IN IF event.isTextDelta /\ buffering
       THEN [f1 EXCEPT !.pendingTextEvents = Append(@, event)]
       ELSE Enqueue(f1, event)

RECURSIVE EnqueueAll(_, _)
\* for (const evt of pendingTextEvents) controller.enqueue(...)
EnqueueAll(f, events) ==
    IF events = <<>> THEN f
    ELSE EnqueueAll(Enqueue(f, Head(events)), Tail(events))

\* flush(controller) of the transform
FlushTransform(f) ==
    LET f1 == [f EXCEPT !.updated = /\ f.accumulatedText # <<>>
                                    /\ HasEmotionShift(<<"\n">> \o f.accumulatedText)]
        f2 == IF f1.pendingTextEvents # <<>>
                 /\ FindShiftBlockStart(f1.accumulatedText) < 0
              THEN EnqueueAll(f1, f1.pendingTextEvents)
              ELSE f1
    IN [f2 EXCEPT !.pendingTextEvents = <<>>]

\* an action on the proxy alone
OnlyProxy ==
    /\ out' = Observe("proxy", <<>>, BusValue)
    /\ UNCHANGED <<queue, subscriptions, history, historyIndex, recorded, signalCounter,
                   subCounter, now, inbox, unsubscribed>>
    /\ frame' = NoFrame
    /\ UNCHANGED <<engines, registry, running, rafId, rafCounter, hostPending,
                   frameTime, loopTickCount, frameCounter, lastActiveSignals,
                   gateway, mind, applied, lastDriveEval>>
    /\ SelfUntouched
    /\ BridgeUntouched

\* createShiftFilteringStream(upstreamResponse, ...)
CreateShiftFilteringStream(response) ==
    /\ proxy.stage = "none"
    /\ proxy' = [NoProxy EXCEPT !.stage = "text", !.response = response]
    /\ OnlyProxy

\* upstream sends an event that is no text delta: message_start before the
\* text, content_block_stop after it, then message_stop
UpstreamOther(type) ==
    /\ \/ type = "message_start" /\ proxy.stage = "text" /\ proxy.upstream = 0
       \/ /\ type = "content_block_stop"
          /\ proxy.stage = "text"
          /\ proxy.sent = Len(proxy.response.body \o proxy.response.block)
       \/ type = "message_stop" /\ proxy.stage = "stopped"
    /\ proxy' = [ProcessEvent([proxy EXCEPT !.upstream = @ + 1],
                              OtherEvent(proxy, type)) EXCEPT
                    !.stage = CASE type = "content_block_stop" -> "stopped"
                                [] type = "message_stop" -> "ended"
                                [] OTHER -> @]
    /\ OnlyProxy

\* upstream sends the next k characters of the response as a text_delta
UpstreamTextDelta(k) ==
    /\ proxy.stage = "text"
    /\ proxy.sent + k <= Len(proxy.response.body \o proxy.response.block)
    /\ proxy' = [ProcessEvent([proxy EXCEPT !.upstream = @ + 1],
                              TextDeltaEvent(proxy, k)) EXCEPT
                    !.sent = @ + k]
    /\ OnlyProxy

\* upstream closes: the transform is flushed
UpstreamClose ==
    /\ proxy.stage = "ended"
    /\ proxy' = [FlushTransform(proxy) EXCEPT !.stage = "closed"]
    /\ OnlyProxy

Init ==
    /\ queue = <<>>
    /\ subscriptions = <<>>
    /\ history = <<>>
    /\ historyIndex = 0
    /\ signalCounter = 0
    /\ subCounter = 0
    /\ now = 0
    /\ inbox = [e \in EngineIds |-> <<>>]
    /\ unsubscribed = {}
    /\ recorded = {}
    /\ out = [op |-> "new", ret |-> <<>>, calls |-> <<>>, threw |-> FALSE]
    /\ engines = <<>>
    /\ registry = <<>>
    /\ running = FALSE
    /\ rafId = 0
    /\ rafCounter = 0
    /\ hostPending = {}
    /\ frameTime = 0
    /\ loopTickCount = 0
    /\ frameCounter = 0
    /\ lastActiveSignals = <<>>
    /\ gateway = NoGateway
    /\ mind = NoMind
    /\ applied = <<>>
    /\ proxy = NoProxy
    \* lastDriveEval = 0 on the clock of Date.now(); the clock of the model
    \* starts at 0, so the epoch lies at least DRIVE_EVAL_COOLDOWN before it
    /\ lastDriveEval = 0 - DRIVE_EVAL_COOLDOWN
    /\ frame = NoFrame
    /\ current = SELF_STATE_DEFAULTS
    /\ targetState = SELF_STATE_DEFAULTS
    /\ snapshots = <<SELF_STATE_DEFAULTS>>
    /\ cachedSnapshot = 1
    /\ stream = <<>>
    /\ streamArrays = <<(<<>>)>>
    /\ cachedStream = 1
    /\ streamReads = {}
    /\ pushed = <<>>
    /\ driveEvals = <<>>
    \* as lastDriveEval: 0 on the clock of Date.now()
    /\ lastExternalInput = 0 - REACH_OUT_QUIET - 1
    /\ settled = 0
    /\ selfCalls = 0
    /\ selfOut = NoSelfCall
    /\ payloads = <<>>
    /\ thoughtBridges = <<>>
    /\ activeThought = 0
    /\ bodyBridges = <<>>
    /\ activeBody = 0
    /\ external = <<>>
    /\ deliveries = <<>>
    /\ polled = <<>>

\* A bus carrying broadcast signals of one type with mixed priorities, and
\* handlers that return or throw; no signal expires.
Next ==
    \/ /\ signalCounter < MaxSignals
       /\ \E p \in Priorities : Emit("thought", "voice", NoTarget, p, SIGNAL_TTL)
    \/ /\ subCounter < MaxSubs
       /\ \E h \in {"noop", "throw"} : Subscribe("arbiter", FALSE, {}, h, 0)
    \/ \E k \in 1..MaxSubs : Unsubscribe(k)
    \/ Flush

Spec == Init /\ [][Next]_vars

\* The same bus with handlers that call back into it while flush() delivers
\* to them: a handler that emits, a handler that unsubscribes (itself, or
\* another subscription whose id it is given).
NextReentrant ==
    \/ /\ signalCounter < MaxSeedSignals
       /\ \E p \in Priorities : Emit("thought", "voice", NoTarget, p, SIGNAL_TTL)
    \/ /\ subCounter < MaxSubs
       /\ \/ Subscribe("arbiter", FALSE, {}, "noop", 0)
          \/ \E p \in Priorities : Subscribe("arbiter", FALSE, {}, "emit", p)
          \/ \E k \in 1..MaxSubs : Subscribe("arbiter", FALSE, {}, "unsub", k)
    \/ \E k \in 1..MaxSubs : Unsubscribe(k)
    \/ Flush

SpecReentrant == Init /\ [][NextReentrant]_vars

\* A bus on which time passes: signals with the default or a short ttl
NextTtl ==
    \/ /\ signalCounter < MaxTtlSignals
       /\ \E p \in Priorities, ttl \in Ttls : Emit("thought", "voice", NoTarget, p, ttl)
    \/ /\ subCounter < 1
       /\ Subscribe("arbiter", FALSE, {}, "noop", 0)
    \/ Flush
    \/ Advance

SpecTtl == Init /\ [][NextTtl]_vars

\* A bus with typed and targeted signals and filtering subscribers
NextRoute ==
    \/ /\ signalCounter < MaxRouteSignals
       /\ \E ty \in SignalTypes, tg \in Targets :
             Emit(ty, "voice", tg, PRIORITY_MEDIUM, SIGNAL_TTL)
    \/ /\ subCounter < MaxRouteSubs
       /\ \/ \E e \in RouteEngines : Subscribe(e, FALSE, {}, "noop", 0)
          \/ \E e \in RouteEngines : Subscribe(e, TRUE, {"thought"}, "noop", 0)
    \/ Flush

SpecRoute == Init /\ [][NextRoute]_vars

\* what the process() and the onIdle() of a registered engine do
EngineKinds == {<<"throw", "ok">>, <<"emit", "ok">>, <<"ok", "throw">>}

\* A loop with up to two engines, registered before the loop is started:
\* one whose process() always throws, one whose process() emits a signal
\* (and returns), one whose onIdle() throws. A signal arrives from outside,
\* the host calls back every FrameStep ms.
NextLoop ==
    \/ /\ subCounter < MaxSubs
       /\ loopTickCount = 0
       /\ \E e \in LoopEngines, k \in EngineKinds : RegisterEngine(e, k[1], k[2])
    \/ /\ loopTickCount < MaxLoopTicks
       /\ \E stateChanged \in BOOLEAN, drives \in 0..1 : Start(stateChanged, drives)
    \/ Stop
    \/ /\ loopTickCount < MaxLoopTicks
       /\ frameTime + FrameStep <= MaxFrameTime
       /\ \E id \in hostPending, stateChanged \in BOOLEAN, drives \in 0..1 :
             Frame(id, stateChanged, drives)
    \/ Destroy
    \/ /\ signalCounter < MaxLoopSeeds
       /\ Emit("thought", "voice", NoTarget, PRIORITY_MEDIUM, SIGNAL_TTL)

SpecLoop == Init /\ [][NextLoop]_vars

\* A loop with an engine whose hooks return and a listener that may call
\* stop() when it is notified; start(), stop() and destroy() are called
\* from outside in any order, the host calls back what it was asked for.
NextChain ==
    \/ /\ subCounter < MaxSubs
       /\ loopTickCount = 0
       /\ \E e \in LoopEngines : RegisterEngine(e, "ok", "ok")
    \/ /\ loopTickCount < MaxChainTicks
       /\ \E stateChanged \in BOOLEAN, listener \in Listeners :
             StartObserved(stateChanged, 0, listener)
    \/ Stop
    \/ /\ loopTickCount < MaxChainTicks
       /\ frameTime + FrameStep <= MaxFrameTime
       /\ \E id \in hostPending, stateChanged \in BOOLEAN, listener \in Listeners :
             FrameObserved(id, stateChanged, 0, listener)
    \/ Destroy

SpecChain == Init /\ [][NextChain]_vars

\* A loop with the two engines, whose hooks return, on a host that calls
\* back after one or two GateStep: within a frame one engine can be due
\* while the other is not.
NextGate ==
    \/ /\ loopTickCount = 0
       /\ \E e \in LoopEngines : RegisterEngine(e, "ok", "ok")
    \/ /\ loopTickCount < MaxGateTicks
       /\ Start(FALSE, 0)
    \/ Stop
    \/ /\ loopTickCount < MaxGateTicks
       /\ \E id \in hostPending, n \in 1..2 :
             /\ frameTime + n * GateStep <= MaxGateTime
             /\ FrameAfter(id, n * GateStep, FALSE, 0)
    \/ /\ signalCounter < MaxLoopSeeds
       /\ Emit("thought", "voice", NoTarget, PRIORITY_MEDIUM, SIGNAL_TTL)

SpecGate == Init /\ [][NextGate]_vars

\* shifts passed to applyShift: two keys, one key, a key that is undefined
Shifts ==
    {[valence |-> Number(0 - BigDelta), arousal |-> Number(SmallDelta)],
     [energy |-> Number(SmallDelta)],
     [valence |-> Undefined, curiosity |-> Number(BigDelta)]}

\* a state handed to restore()
RestoredState == [d \in DimensionSet |-> SmallDelta]

\* The store under every public call, with deltas beyond the width of the
\* intervals; the breathing term of an update() is at either extreme.
NextSelf ==
    \/ /\ selfCalls < MaxSelfCalls
       /\ \E d \in {"valence", "arousal"}, x \in {0 - BigDelta, SmallDelta} : Nudge(d, x)
    \/ /\ selfCalls < MaxSelfCalls
       /\ \E d \in {"valence", "energy"}, x \in {0 - BigDelta, BigDelta} : SetTarget(d, x)
    \/ /\ selfCalls < MaxSelfCalls
       /\ \E shift \in Shifts : ApplyShift(shift)
    \/ /\ selfCalls < MaxSelfCalls
       /\ \E breath \in {0 - BREATH_AMPLITUDE, BREATH_AMPLITUDE} : Update(breath)
    \/ /\ selfCalls < MaxSelfCalls
       /\ PushStream("wandering")
    \/ /\ selfCalls < MaxSelfCalls
       /\ EvaluateDrives
    \/ /\ selfCalls < MaxSelfCalls
       /\ Restore(RestoredState)

SpecSelf == Init /\ [][NextSelf]_vars

\* The store left alone after its targets were set: a run of update()
\* calls, one per frame, during which the breathing term stays at its
\* lowest (the oscillation has a period of 50 s).
NextSettle ==
    \/ /\ settled = 0
       /\ selfCalls < MaxSettleTargets
       /\ \E d \in {"valence", "arousal", "confidence"}, x \in {0 - BigDelta, 0, BigDelta} :
             SetTarget(d, x)
    \/ /\ settled < MaxSettleUpdates
       /\ Update(0 - BREATH_AMPLITUDE)

SpecSettle == Init /\ [][NextSettle]_vars

\* states handed to restore() in SpecDrives: one below every threshold,
\* one past the thresholds of appreciate and reach-out
DriveStates ==
    {[SELF_STATE_DEFAULTS EXCEPT !.valence = 4000],
     [SELF_STATE_DEFAULTS EXCEPT !.social = 8000]}

\* The drives of the store: between evaluations time passes in steps below
\* the cooldown, the state moves across the thresholds of two drives, and
\* external input is marked.
NextDrives ==
    \/ /\ selfCalls < MaxDriveCalls
       /\ EvaluateDrives
    \/ /\ now + DriveStep <= MaxDriveTime
       /\ Elapse(DriveStep)
    \/ /\ selfCalls < MaxDriveCalls
       /\ \E state \in DriveStates : state # current /\ Restore(state)
    \/ /\ selfCalls < MaxDriveCalls
       /\ lastExternalInput < now
       /\ MarkExternalInput

SpecDrives == Init /\ [][NextDrives]_vars

\* the content of the thoughts emitted in SpecBridge
Contents == {"hello", "again"}

\* A bus with ThoughtBridges and an arbiter engine that listens for the
\* responses: thoughts are emitted and flushed, external calls end in
\* every way, bridges are constructed and destroyed.
NextBridge ==
    \/ /\ Len(thoughtBridges) < MaxBridges
       /\ ConstructThoughtBridge
    \/ \E i \in DOMAIN thoughtBridges :
          /\ thoughtBridges[i].subscriptionId \notin unsubscribed
          /\ DestroyThoughtBridge(i)
    \/ /\ subscriptions = <<>>
       /\ subCounter = 0
       /\ Subscribe("arbiter", TRUE, {"claude-response"}, "inbox", 0)
    \/ /\ Cardinality({id \in DOMAIN payloads : payloads[id] \in Contents}) < MaxThoughts
       /\ \E content \in Contents :
             EmitWith("thought", "arbiter", NoTarget, PRIORITY_HIGH, content)
    \/ /\ queue # <<>>
       /\ Flush
    \/ \E k \in DOMAIN external, outcome \in Outcomes : Resolve(k, outcome)

SpecBridge == Init /\ [][NextBridge]_vars

\* the calls that have failed
FailedCalls == {k \in DOMAIN external : external[k].outcome = "failed"}

\* A long conversation through one ThoughtBridge: a thought that differs
\* from the last one is emitted once the bridge is idle and the bus
\* drained, and flushed; the call returns a result or, at most MaxFailures
\* times, fails.
NextHistory ==
    \/ /\ thoughtBridges = <<>>
       /\ ConstructThoughtBridge
    \/ /\ thoughtBridges # <<>>
       /\ queue = <<>>
       /\ \A k \in DOMAIN external : external[k].outcome # "pending"
       /\ Cardinality({id \in DOMAIN payloads : payloads[id] \in Contents}) < MaxExchanges
       /\ \E content \in Contents \ {thoughtBridges[1].lastProcessedContent} :
             EmitWith("thought", "arbiter", NoTarget, PRIORITY_HIGH, content)
    \/ /\ queue # <<>>
       /\ Flush
    \/ \E k \in DOMAIN external :
          \/ Resolve(k, "ok")
          \/ /\ Cardinality(FailedCalls) < MaxFailures
             /\ Resolve(k, "not-ok")

SpecHistory == Init /\ [][NextHistory]_vars

\* A bus with BodyBridges: intents and status signals are emitted and
\* flushed, execute and manifest calls end in every way, bridges are
\* constructed and destroyed.
NextBody ==
    \/ /\ Len(bodyBridges) < MaxBodyBridges
       /\ ConstructBodyBridge
    \/ \E i \in DOMAIN bodyBridges :
          /\ bodyBridges[i].pollInterval
          /\ DestroyBodyBridge(i)
    \/ /\ bodyBridges # <<>>
       /\ Cardinality({id \in DOMAIN payloads : payloads[id] = "gesture"}) < MaxIntents
       /\ EmitWith("body-intent", "expression", OneTarget("body-gateway"),
                   PRIORITY_MEDIUM, "gesture")
    \/ /\ bodyBridges # <<>>
       /\ Cardinality({id \in DOMAIN payloads : payloads[id] = "status"}) < MaxStatus
       /\ EmitWith("body-status", "body-gateway", NoTarget, PRIORITY_MEDIUM, "status")
    \/ /\ queue # <<>>
       /\ Flush
    \/ \E k \in DOMAIN external, outcome \in ExecuteOutcomes : ResolveExecute(k, outcome)
    \/ \E k \in DOMAIN external, outcome \in {"ok", "not-ok", "rejects"} :
          ResolveManifest(k, outcome)

SpecBody == Init /\ [][NextBody]_vars

\* the execute calls issued so far: the tasks the server can report
ExecuteCalls == {k \in DOMAIN external : external[k].kind = "execute"}

\* the tasks of a response of /api/body/tasks: some of the tasks the
\* server has been asked for, each with a status
TaskLists == UNION {[ids -> TaskStatuses] : ids \in SUBSET ExecuteCalls \ {{}}}

\* A BodyBridge that polls: intents are emitted and flushed, execute calls
\* return a task id or an error, the interval fires while an earlier poll
\* may still be outstanding, polls return, and the bridge is destroyed at
\* any moment.
NextPoll ==
    \/ /\ Len(bodyBridges) < MaxBodyBridges
       /\ ConstructBodyBridge
    \/ \E i \in DOMAIN bodyBridges :
          /\ bodyBridges[i].pollInterval
          /\ DestroyBodyBridge(i)
    \/ /\ bodyBridges # <<>>
       /\ Cardinality({id \in DOMAIN payloads : payloads[id] = "gesture"}) < MaxIntents
       /\ EmitWith("body-intent", "expression", OneTarget("body-gateway"),
                   PRIORITY_MEDIUM, "gesture")
    \/ /\ queue # <<>>
       /\ Flush
    \/ \E k \in DOMAIN external, outcome \in {"task", "error"} :
          ResolveExecute(k, outcome)
    \/ /\ Cardinality({k \in DOMAIN external : external[k].kind = "tasks"}) < MaxPolls
       /\ \E i \in DOMAIN bodyBridges : PollTasks(i)
    \/ \E p \in DOMAIN external :
          \/ ResolveTasks(p, "not-ok", <<>>)
          \/ \E tasks \in TaskLists : ResolveTasks(p, "ok", tasks)

SpecPoll == Init /\ [][NextPoll]_vars

\* One ThoughtBridge over time: thoughts are emitted and flushed, external
\* calls end or stay outstanding, and time passes between frames, that is
\* while nothing is pending.
NextWindow ==
    \/ /\ thoughtBridges = <<>>
       /\ ConstructThoughtBridge
    \/ /\ thoughtBridges # <<>>
       /\ Cardinality({id \in DOMAIN payloads : payloads[id] \in Contents}) < MaxWindowThoughts
       /\ \E content \in Contents :
             EmitWith("thought", "arbiter", NoTarget, PRIORITY_HIGH, content)
    \/ /\ queue # <<>>
       /\ Flush
    \/ \E k \in DOMAIN external, outcome \in {"ok", "rejects"} : Resolve(k, outcome)
    \/ /\ now + BridgeStep <= MaxBridgeTime
       /\ queue = <<>>
       /\ Elapse(BridgeStep)

SpecWindow == Init /\ [][NextWindow]_vars

\* A bus with the body gateway: a bridge publishes manifests, engines send
\* intents of every type, the loop flushes the bus and ticks the gateway.
NextGateway ==
    \/ InitGateway
    \/ /\ gateway.subscriptionId # 0
       /\ signalCounter < MaxGatewaySignals
       /\ \E manifest \in Manifests :
             EmitWith("body-manifest", "body-gateway", NoTarget, PRIORITY_MEDIUM,
                      manifest)
    \/ /\ gateway.subscriptionId # 0
       /\ signalCounter < MaxGatewaySignals
       /\ \E intent \in Intents :
             EmitWith("body-intent", "expression", OneTarget("body-gateway"),
                      PRIORITY_MEDIUM, intent)
    \/ /\ queue # <<>>
       /\ Flush
    \/ GatewayTick
    \/ /\ now + GatewayStep <= MaxGatewayTime
       /\ Elapse(GatewayStep)

SpecGateway == Init /\ [][NextGateway]_vars

\* whether the user has sent the text: the signal is queued, or in the
\* inbox of the text-input engine, or that engine has processed it
TextSent ==
    \/ \E i \in DOMAIN queue : queue[i].type = "text-input"
    \/ inbox["text-input"] # <<>>
    \/ mind.eng["text-input"].signalsProcessed > 0

\* the inference calls that have not returned
PendingCalls == {k \in DOMAIN external : external[k].outcome = "pending"}

\* the host has a frame to call, and the inference has not yet taken its
\* longest
FrameDue ==
    /\ mind.order # <<>>
    /\ running
    /\ hostPending # {}
    /\ now + MindStep <= MaxMindTime
    /\ \A k \in PendingCalls : now - external[k].at < MaxLatency

\* one frame after another
NextMindFrame ==
    /\ FrameDue
    /\ \E id \in hostPending : MindFrame(id, MindStep, 0 - BREATH_AMPLITUDE)

\* a frame as the clock of the loop shows it: loop() always runs to its
\* end, so that a frame can be called exactly when one is due
FramePasses ==
    /\ FrameDue
    /\ frameTime' = frameTime + MindStep

\* a call returns, as the log of calls shows it
CallReturns ==
    /\ PendingCalls # {}
    /\ \E k \in PendingCalls : external' = [external EXCEPT ![k].outcome = "ok",
                                                             ![k].result = signalCounter + 1]

\* the stubbed inference returns
NextMindResolve == \E k \in DOMAIN external : Resolve(k, "ok")

\* The mind from a fresh start: the provider mounts the engines and the
\* bridge and starts the loop, frames follow one another, the user sends
\* one text, and the stubbed inference returns within MaxLatency.  The
\* breathing term stays at its lowest (its period is 50 s).
NextMind ==
    \/ MountMind
    \/ StartMind(0 - BREATH_AMPLITUDE)
    \/ /\ ~TextSent
       /\ now <= TextBy
       /\ \E text \in Texts : EmitText(text)
    \/ NextMindFrame
    \/ NextMindResolve

\* the texts the user has sent so far
TextsSent ==
    Cardinality({i \in DOMAIN queue : queue[i].type = "text-input"})
    + Len(inbox["text-input"]) + mind.eng["text-input"].signalsProcessed

\* The mind in a conversation: the user sends a text as soon as the loop
\* runs, and the next one in the frame in which the arbiter has answered;
\* every inference call returns within MaxLatency.
NextHang ==
    \/ MountMind
    \/ StartMind(0 - BREATH_AMPLITUDE)
    \/ /\ TextsSent = 0
       /\ now = 0
       /\ \E text \in Texts : EmitText(text)
    \/ /\ TextsSent \in 1..(MaxTexts - 1)
       /\ applied # <<>>
       /\ mind.eng["arbiter"].lastResponseTime = now
       /\ \E text \in Texts : EmitText(text)
    \/ /\ FrameDue
       /\ now + MindStep <= MaxHangTime
       /\ \E id \in hostPending : MindFrame(id, MindStep, 0 - BREATH_AMPLITUDE)
    \/ NextMindResolve

SpecHang == Init /\ [][NextHang]_vars

\* the state persistence saved when the mind was last tired
TiredState == [SELF_STATE_DEFAULTS EXCEPT !.energy = TiredEnergy]

\* The mind started from a persisted state of low energy: the provider
\* mounts the engines, restores the saved self state and starts the loop;
\* the user sends one text.
NextDefer ==
    \/ MountMind
    \/ /\ mind.order # <<>>
       /\ ~running
       /\ loopTickCount = 0
       /\ current # TiredState
       /\ Restore(TiredState)
    \/ /\ current = TiredState
       /\ StartMind(0 - BREATH_AMPLITUDE)
    \/ /\ ~TextSent
       /\ now <= TextBy
       /\ \E text \in Texts : EmitText(text)
    \/ NextMindFrame
    \/ NextMindResolve

SpecDefer == Init /\ [][NextDefer]_vars

\* A streamed response through the proxy: upstream splits the text of the
\* response into text_delta events in every way, and ends the stream with
\* content_block_stop and message_stop.
NextProxy ==
    \/ \E response \in Responses : CreateShiftFilteringStream(response)
    \/ \E k \in 1..MaxChunk : UpstreamTextDelta(k)
    \/ \E type \in {"message_start", "content_block_stop", "message_stop"} :
          UpstreamOther(type)
    \/ UpstreamClose

SpecProxy == Init /\ [][NextProxy]_vars

\* the host calls the frames it was asked for (requestAnimationFrame), and
\* the stubbed inference returns
SpecMind ==
    /\ Init
    /\ [][NextMind]_vars
    /\ WF_frameTime(FramePasses)
    /\ WF_external(CallReturns)

\* the flavors of the entries pushed in SpecStream
Flavors == {"wandering", "emotional", "memory"}

\* The consciousness stream: entries of three flavors are pushed, and a
\* reader calls getStream() at any point in between.
NextStream ==
    \/ /\ Len(pushed) < MaxPushes
       /\ \E entry \in Flavors : PushStream(entry)
    \/ /\ cachedStream \notin streamReads
       /\ GetStream

SpecStream == Init /\ [][NextStream]_vars

----------------------------------------------------------------------------
(* Properties *)

Ids(sigs) == {sigs[i].id : i \in DOMAIN sigs}

\* the number of times a call handed signal sigId to subscription subId
TimesCalled(calls, sigId, subId) ==
    Cardinality({i \in DOMAIN calls : calls[i].sig = sigId /\ calls[i].sub = subId})

PositionIn(sigs, sigId) == CHOOSE i \in DOMAIN sigs : sigs[i].id = sigId

\* C1: one flush() returns and delivers all pending signals in
\* non-increasing priority order, equal priorities in the order they were
\* emitted (the order of their ids); handlers are invoked in that order too.
C1_PriorityThenEmissionOrder ==
    [][out'.op = "flush" =>
        LET ret == out'.ret
            calls == out'.calls
        IN /\ Len(ret) = Len(queue)
           /\ Ids(ret) = Ids(queue)
           /\ \A i, j \in DOMAIN ret :
                i < j => \/ ret[i].priority > ret[j].priority
                         \/ /\ ret[i].priority = ret[j].priority
                            /\ ret[i].id < ret[j].id
           /\ \A i, j \in DOMAIN calls :
                i < j => PositionIn(ret, calls[i].sig) <= PositionIn(ret, calls[j].sig)
    ]_vars

\* the spec's example: emit p=10, p=50, p=10, then flush: order is 2, 1, 3
C1_Witness ==
    /\ out.op = "flush"
    /\ Len(out.ret) = 3
    /\ <<out.ret[1].id, out.ret[2].id, out.ret[3].id>> = <<2, 1, 3>>
    /\ out.ret[1].priority = PRIORITY_MEDIUM
    /\ out.ret[2].priority = PRIORITY_IDLE
    /\ out.ret[3].priority = PRIORITY_IDLE
    /\ Len(out.calls) >= 3

\* C2: flush() hands a signal to a subscription's handler exactly once if
\* the signal has no target or the subscription's engine id is the target
\* or in the target list, and the subscription has no type filter or its
\* filter contains the signal's type; otherwise not at all.
C2_DeliveryRule ==
    [][out'.op = "flush" =>
        \A s \in SeqRange(queue), sub \in SeqRange(subscriptions) :
            TimesCalled(out'.calls, s.id, sub.id) =
                IF /\ \/ s.target.kind = "none"
                      \/ s.target.kind = "one" /\ s.target.ids = {sub.engineId}
                      \/ s.target.kind = "list" /\ sub.engineId \in s.target.ids
                   /\ \/ ~sub.filtered
                      \/ s.type \in sub.signalTypes
                THEN 1 ELSE 0
    ]_vars

\* a signal targeted at the arbiter reached the arbiter's subscription and
\* not the unfiltered subscription of the voice engine
C2_Witness ==
    /\ out.op = "flush"
    /\ \E i \in DOMAIN out.ret :
         /\ out.ret[i].target = OneTarget("arbiter")
         /\ \E a, v \in SeqRange(subscriptions) :
              /\ a.engineId = "arbiter"
              /\ v.engineId = "voice" /\ ~v.filtered
              /\ TimesCalled(out.calls, out.ret[i].id, a.id) = 1
              /\ TimesCalled(out.calls, out.ret[i].id, v.id) = 0

\* C3: a pending signal whose age is at least its ttl when flush() starts
\* is dropped: it is not returned, no handler is invoked for it, it is not
\* in getHistory() and it is no longer pending.
C3_TtlExpiry ==
    [][out'.op = "flush" =>
        \A s \in SeqRange(queue) :
            now - s.timestamp >= s.ttl =>
                /\ s.id \notin Ids(out'.ret)
                /\ \A i \in DOMAIN out'.calls : out'.calls[i].sig # s.id
                /\ s.id \notin Ids(GetHistory')
                /\ s.id \notin Ids(queue')
    ]_vars

\* a flush with a subscriber registered, after which every signal ever
\* emitted is gone without having been delivered
C3_Witness ==
    /\ out.op = "flush"
    /\ signalCounter >= 1
    /\ subscriptions # <<>>
    /\ now >= ShortTtl
    /\ queue = <<>> /\ history = <<>>
    /\ out.ret = <<>> /\ out.calls = <<>>

\* C4: a signal a handler emits while flush() delivers to it is neither
\* returned nor delivered by that flush(); it is still pending afterwards.
C4_HandlerEmitWaitsForNextFlush ==
    [][out'.op = "flush" =>
        \A n \in (signalCounter + 1)..signalCounter' :
            /\ n \notin Ids(out'.ret)
            /\ \A i \in DOMAIN out'.calls : out'.calls[i].sig # n
            /\ n \in Ids(queue')
    ]_vars

\* C5: when a handler throws, flush() does not throw, every subscriber
\* still receives every pending signal exactly once, and all pending
\* signals are returned (on this bus every subscription is unfiltered and
\* every signal is a broadcast).
C5_HandlerFailureIsolated ==
    [][out'.op = "flush" =>
        /\ ~out'.threw
        /\ Ids(out'.ret) = Ids(queue)
        /\ queue' = <<>>
        /\ \A s \in SeqRange(queue), sub \in SeqRange(subscriptions) :
              TimesCalled(out'.calls, s.id, sub.id) = 1
    ]_vars

\* a handler threw, a later subscriber received the same signal, and a
\* later signal was delivered to the throwing subscriber again
C5_Witness ==
    /\ out.op = "flush"
    /\ \E i, j, k \in DOMAIN out.calls :
         /\ i < j /\ j < k
         /\ out.calls[i].threw
         /\ out.calls[j].sig = out.calls[i].sig /\ out.calls[j].sub # out.calls[i].sub
         /\ out.calls[k].sig # out.calls[i].sig /\ out.calls[k].sub = out.calls[i].sub

LastN(sigs, n) ==
    IF Len(sigs) <= n THEN sigs ELSE SubSeq(sigs, Len(sigs) - n + 1, Len(sigs))

\* the signals delivered so far: on this bus no signal expires, so these are
\* the emitted signals that are no longer pending
DeliveredCount == signalCounter - Len(queue)

\* C6: getHistory() holds the SIGNAL_HISTORY_SIZE most recently delivered
\* signals in delivery order, oldest first, and all delivered signals while
\* there are at most that many: it is empty at first, each flush() appends
\* what it delivered and keeps the last SIGNAL_HISTORY_SIZE entries, and no
\* other call changes it.
C6_HistoryRingBuffer ==
    /\ [](Len(GetHistory) = IF DeliveredCount > SIGNAL_HISTORY_SIZE
                            THEN SIGNAL_HISTORY_SIZE ELSE DeliveredCount)
    /\ [][IF out'.op = "flush"
          THEN GetHistory' = LastN(GetHistory \o out'.ret, SIGNAL_HISTORY_SIZE)
          ELSE GetHistory' = GetHistory]_vars

\* the buffer has wrapped: more signals were delivered than it holds, and
\* the oldest entry is not in the first slot
C6_Witness ==
    /\ DeliveredCount > SIGNAL_HISTORY_SIZE
    /\ historyIndex # 0
    /\ GetHistory # history
    /\ \A i \in 1..(Len(GetHistory) - 1) : GetHistory[i].id # GetHistory[i + 1].id

\* C7: emit(), subscribe() and unsubscribe() invoke no handler and do not
\* throw; emit() adds one signal to the pending queue and leaves history,
\* the subscriber set and the inboxes as they were.
C7_OnlyFlushDelivers ==
    [][/\ out'.op \in {"emit", "subscribe", "unsubscribe"} =>
            /\ out'.calls = <<>>
            /\ ~out'.threw
            /\ inbox' = inbox
       /\ out'.op = "emit" =>
            /\ UNCHANGED <<subscriptions, history, historyIndex, unsubscribed>>
            /\ Len(queue') = Len(queue) + 1
            /\ Ids(queue') = Ids(queue) \cup {out'.ret[1]}
    ]_vars

\* an emit() on a bus with a subscriber and another signal already pending
C7_Witness ==
    /\ out.op = "emit"
    /\ subscriptions # <<>>
    /\ Len(queue) >= 2
    /\ out.calls = <<>>

SubscriptionById(k) == CHOOSE s \in SeqRange(subscriptions) : s.id = k

\* C8: unsubscribe() does not throw; with an id that is not registered
\* (removed before, or never handed out) it changes nothing; and a handler
\* is never invoked after unsubscribe() was called with its id, neither in
\* a later flush() nor later in the flush() during which a handler made the
\* call.
C8_UnsubscribeFinal ==
    [][/\ out'.op = "unsubscribe" =>
            /\ ~out'.threw
            /\ \A s \in SeqRange(subscriptions') : s.id # out'.ret[1]
            /\ (\A s \in SeqRange(subscriptions) : s.id # out'.ret[1]) =>
                  UNCHANGED <<queue, subscriptions, history, historyIndex, inbox>>
       /\ out'.op = "flush" =>
            \A j \in DOMAIN out'.calls :
               /\ out'.calls[j].sub \notin unsubscribed
               /\ \A i \in 1..(j - 1) :
                     LET h == SubscriptionById(out'.calls[i].sub)
                     IN h.handler = "unsub" => out'.calls[j].sub # h.arg
    ]_vars

\* a subscription that received a signal of this flush, was unsubscribed by
\* a handler, and did not receive a later signal of the same flush
C8_Witness ==
    /\ out.op = "flush"
    /\ \E u \in unsubscribed :
         /\ \E i \in DOMAIN out.calls : out.calls[i].sub = u
         /\ \E i \in DOMAIN out.ret :
              /\ TimesCalled(out.calls, out.ret[i].id, u) = 0
              /\ \E c \in DOMAIN out.calls : out.calls[c].sig = out.ret[i].id

\* a call of loop() that got past its running test
LoopRan == frame'.op \in {"start", "frame"} /\ loopTickCount' = loopTickCount + 1

IndexIn(order, e) == CHOOSE i \in DOMAIN order : order[i] = e

LastStep(f) == f.steps[Len(f.steps)]

\* C9: an exception of process() does not leave tick(): the engine gets
\* status 'error' and a debug string; in every frame every registered
\* engine whose interval has elapsed is ticked (unless an onIdle() hook,
\* not a process(), threw earlier in the frame), the engine whose
\* process() throws on every batch included, in the frame of the failure
\* and in every later one.
C9_ProcessFailureIsolated ==
    [][LoopRan =>
         /\ frame'.threw =>
               /\ LastStep(frame').kind = "onIdle"
               /\ engines[LastStep(frame').engine].idle = "throw"
         /\ \A e \in DOMAIN engines :
               IF /\ frameTime' - engines[e].lastTick >= TickRate(e)
                  /\ \/ ~frame'.threw
                     \/ IndexIn(registry, e) <= IndexIn(registry, LastStep(frame').engine)
               THEN /\ engines'[e].lastTick = frameTime'
                    /\ engines'[e].tickCount = engines[e].tickCount + 1
                    /\ (inbox[e] # <<>> /\ engines[e].proc = "throw") =>
                          /\ engines'[e].status = "error"
                          /\ engines'[e].debugInfo
                          /\ engines'[e].signalsProcessed =
                                engines[e].signalsProcessed + Len(inbox[e])
               ELSE engines'[e] = engines[e]
    ]_vars

\* a frame in which an engine whose process() failed in an earlier frame is
\* ticked again, and the engine registered after it is ticked too
C9_Witness ==
    /\ frame.op = "frame"
    /\ ~frame.threw
    /\ Len(registry) = 2
    /\ engines[registry[1]].proc = "throw"
    /\ engines[registry[1]].debugInfo
    /\ engines[registry[1]].tickCount = 2
    /\ engines[registry[2]].tickCount = 2
    /\ \E i \in DOMAIN frame.steps :
          frame.steps[i].kind = "onIdle" /\ frame.steps[i].engine = registry[1]
    /\ \E i \in DOMAIN frame.steps : frame.steps[i].engine = registry[2]

\* C10: while the loop is running no failure inside process() or onIdle()
\* stops the frame: every call of loop() that gets past its running test
\* flushes the bus, updates the self state and requests the next frame
\* without throwing, so that a running loop always has a frame callback
\* pending with the host.
C10_FrameAlwaysCompletes ==
    /\ [](running => rafId \in hostPending)
    /\ [][LoopRan =>
            /\ ~frame'.threw
            /\ \E i \in DOMAIN frame'.steps : frame'.steps[i].kind = "flush"
            /\ \E i \in DOMAIN frame'.steps : frame'.steps[i].kind = "update"
            /\ LastStep(frame').kind = "schedule"
       ]_vars

\* the steps of a call of loop() that are of one of the given kinds
StepsOfKind(f, kinds) == SelectSeq(f.steps, LAMBDA st : st.kind \in kinds)

\* the kinds of the calls a frame makes on a registry, in order
FrameOrder(order) ==
    [i \in 1..(Len(order) + 3) |->
        IF i <= Len(order) THEN "tick"
        ELSE <<"flush", "update", "drives">>[i - Len(order)]]

\* C11: every call of loop() on a running loop calls tick() on every
\* registered engine, in registration order, then flush() exactly once,
\* then update() exactly once, then evaluateDrives().
C11_FrameOrder ==
    [][LoopRan =>
         LET called == StepsOfKind(frame', {"tick", "flush", "update", "drives"})
         IN /\ [i \in DOMAIN called |-> called[i].kind] = FrameOrder(registry)
            /\ \A i \in DOMAIN registry : called[i].engine = registry[i]
    ]_vars

\* the signals an engine emitted during the ticks of the last call of loop()
\* (the drive pulses are emitted by loop() itself, after its flush)
EmittedInTicks(sigs) ==
    {i \in DOMAIN sigs : sigs[i].id > signalCounter /\ sigs[i].source \in DOMAIN engines}

Flushed(f) == \E i \in DOMAIN f.steps : f.steps[i].kind = "flush"

\* C12 as stated: the flush() of a frame delivers no signal that an engine
\* emitted during its tick in that frame.
C12_TickEmitWaitsForNextFrame ==
    [][LoopRan => EmittedInTicks(out'.ret) = {}]_vars

\* C12 as the code behaves: a signal emitted by an engine during its tick
\* in frame N is delivered by the flush() of the same frame N to the inbox
\* of every subscribed engine, and is not pending afterwards; the engines
\* that received it process it at their next effective tick, which comes
\* after that flush.
C12_TickEmitDeliveredInSameFrame ==
    [][(LoopRan /\ Flushed(frame')) =>
         /\ EmittedInTicks(queue') = {}
         /\ \A n \in (signalCounter + 1)..signalCounter' :
               \/ \E i \in DOMAIN queue' :
                     queue'[i].id = n /\ queue'[i].source = "attention"
               \/ /\ \E i \in DOMAIN out'.ret :
                        out'.ret[i].id = n /\ out'.ret[i].source \in DOMAIN engines
                  /\ \A e \in DOMAIN engines :
                        /\ \E i \in DOMAIN inbox'[e] : inbox'[e][i].id = n
                        /\ TimesCalled(out'.calls, n, engines[e].subscriptionId) = 1
    ]_vars

\* a frame in which an engine's process() emitted a signal and the flush
\* of that frame put it into the inboxes
C12_Witness ==
    /\ frame.op = "frame"
    /\ \E i \in DOMAIN out.ret :
          /\ out.ret[i].source \in DOMAIN engines
          /\ \E k \in DOMAIN frame.steps :
                frame.steps[k].kind = "process" /\ frame.steps[k].engine = out.ret[i].source
          /\ \A e \in DOMAIN engines : \E j \in DOMAIN inbox[e] : inbox[e][j].id = out.ret[i].id

Ticked(f, e) == \E i \in DOMAIN f.steps : f.steps[i].kind = "tick" /\ f.steps[i].engine = e

Effective(f, e) ==
    \E i \in DOMAIN f.steps : f.steps[i].kind \in {"process", "onIdle"} /\ f.steps[i].engine = e

\* C13: a call of tick(now) runs process() or onIdle() if and only if
\* now - lastTick >= tickInterval, and then sets lastTick to now (else it
\* changes nothing); so two consecutive effective ticks of an engine are at
\* least its tickInterval apart, whatever the other engines do.
C13_TickGating ==
    [][LoopRan =>
         \A e \in DOMAIN engines :
            IF Ticked(frame', e)
            THEN /\ Effective(frame', e) <=>
                       frameTime' - engines[e].lastTick >= TickRate(e)
                 /\ IF Effective(frame', e)
                    THEN /\ engines'[e].lastTick = frameTime'
                         /\ engines'[e].tickCount = engines[e].tickCount + 1
                         /\ engines'[e].lastTick - engines[e].lastTick >= TickRate(e)
                    ELSE engines'[e] = engines[e]
            ELSE engines'[e] = engines[e]
    ]_vars

\* a frame in which one engine, ticked before, is due again and the other,
\* ticked before too, is not yet
C13_Witness ==
    /\ frame.op = "frame"
    /\ \E e1, e2 \in DOMAIN engines :
          /\ Effective(frame, e1) /\ engines[e1].tickCount >= 2
          /\ Ticked(frame, e2) /\ ~Effective(frame, e2) /\ engines[e2].tickCount >= 1

StepsOf(f, kind, e) == SelectSeq(f.steps, LAMBDA st : st.kind = kind /\ st.engine = e)

SignalIds(sigs) == [i \in DOMAIN sigs |-> sigs[i].id]

\* the ids of the signals a call handed to subscription subId, in order
DeliveredTo(calls, subId) ==
    LET mine == SelectSeq(calls, LAMBDA c : c.sub = subId)
    IN [i \in DOMAIN mine |-> mine[i].sig]

\* C14: what flush() puts into an engine's inbox stays there, in delivery
\* order, until the engine's next effective tick, which passes all of it
\* to process() as one batch and empties the inbox; process() is called
\* with a non-empty batch only, onIdle() only by an effective tick that
\* finds the inbox empty.
C14_InboxHandOff ==
    [][LoopRan =>
         \A e \in DOMAIN engines :
            LET procs == StepsOf(frame', "process", e)
                idles == StepsOf(frame', "onIdle", e)
                kept  == IF procs # <<>> THEN <<>> ELSE SignalIds(inbox[e])
            IN /\ Len(procs) + Len(idles) = IF Effective(frame', e) THEN 1 ELSE 0
               /\ procs # <<>> <=> (Effective(frame', e) /\ inbox[e] # <<>>)
               /\ procs # <<>> => procs[1].batch = SignalIds(inbox[e])
               /\ SignalIds(inbox'[e]) =
                     kept \o DeliveredTo(out'.calls, engines[e].subscriptionId)
    ]_vars

\* a frame in which process() got a batch of two signals that two
\* different flushes had delivered, and the flush delivered nothing new
C14_Witness ==
    /\ frame.op = "frame"
    /\ \E e \in DOMAIN engines :
          /\ \E i \in DOMAIN frame.steps :
                /\ frame.steps[i].kind = "process"
                /\ frame.steps[i].engine = e
                /\ frame.steps[i].batch = <<1, 2>>
          /\ inbox[e] = <<>>
          /\ engines[e].signalsProcessed = 2

\* C15: destroy() leaves the loop stopped with no frame callback pending,
\* no engine registered, no bus subscription of a destroyed engine, and an
\* empty queue and history; afterwards a call of loop() (start() included)
\* ticks registered engines only, hence none of the destroyed ones, and
\* nothing is put into the inbox of an engine that is not registered.
C15_Termination ==
    [][/\ frame'.op = "destroy" =>
            /\ ~running' /\ hostPending' = {} /\ rafId' = 0
            /\ engines' = <<>> /\ registry' = <<>>
            /\ \A e \in DOMAIN engines : \A i \in DOMAIN subscriptions' :
                  /\ subscriptions'[i].id # engines[e].subscriptionId
                  /\ subscriptions'[i].engineId # e
            /\ queue' = <<>> /\ history' = <<>> /\ GetHistory' = <<>>
       /\ \A i \in DOMAIN frame'.steps :
             frame'.steps[i].engine # "" => frame'.steps[i].engine \in DOMAIN engines
       /\ \A e \in EngineIds : e \notin DOMAIN engines' => inbox'[e] = inbox[e]
    ]_vars

\* a loop started again after destroy() removed two engines: it flushes a
\* signal and ticks nothing
C15_Witness ==
    /\ frame.op = "start"
    /\ engines = <<>>
    /\ Cardinality(unsubscribed) = 2
    /\ loopTickCount >= 2
    /\ \E i \in DOMAIN frame.steps : frame.steps[i].kind = "flush" /\ frame.steps[i].n = 1
    /\ \A i \in DOMAIN frame.steps : frame.steps[i].engine = ""

StepsNamed(f, kind) == SelectSeq(f.steps, LAMBDA st : st.kind = kind)

\* the frame's flush returned a signal, or its update() reported a change
HadActivity(f) ==
    \/ \E i \in DOMAIN f.steps : f.steps[i].kind = "flush" /\ f.steps[i].n > 0
    \/ \E i \in DOMAIN f.steps : f.steps[i].kind = "update" /\ f.steps[i].n > 0

InInterval(state, d) == MinOf(d) <= state[d] /\ state[d] <= ONE

\* C17: from the default state, after any nudge, setTarget, applyShift and
\* update calls, every dimension of the current state and of the object
\* get() returns lies within its interval: valence in [-1, 1], the others
\* in [0, 1].
C17_CurrentWithinIntervals ==
    \A d \in DimensionSet : InInterval(current, d) /\ InInterval(Get, d)

\* C18: nudge, setTarget and applyShift write the clamped value into the
\* target of the dimensions they name (applyShift: of the keys of the shift
\* that have a value) and change nothing else: not the target of another
\* dimension, not current, not the object get() returns.
C18_MutatorsWriteTargetOnly ==
    [][selfOut'.op \in {"nudge", "setTarget", "applyShift"} =>
         /\ current' = current
         /\ cachedSnapshot' = cachedSnapshot /\ snapshots' = snapshots /\ Get' = Get
         /\ \A d \in DimensionSet \ selfOut'.dims : targetState'[d] = targetState[d]
         /\ \A d \in selfOut'.dims :
               targetState'[d] =
                  Clamp(CASE selfOut'.op = "nudge" -> targetState[d] + selfOut'.ret[1]
                          [] selfOut'.op = "setTarget" -> selfOut'.ret[1]
                          [] selfOut'.op = "applyShift" ->
                                targetState[d] + selfOut'.ret[1][d].delta,
                        MinOf(d), ONE)
    ]_vars

\* an applyShift with a key that is undefined, on a store whose current
\* is off the target it writes: the named target saturates, the rest stays
C18_Witness ==
    /\ selfOut.op = "applyShift"
    /\ selfOut.dims = {"curiosity"}
    /\ targetState.curiosity = ONE
    /\ targetState.valence = 0 - ONE
    /\ current.valence # targetState.valence
    /\ current.curiosity # ONE

\* the dimensions whose target update() never writes
SteadyDimensions == {"valence", "confidence", "curiosity"}

\* C19: an update() moves each dimension whose target stays fixed toward
\* the target by the damping fraction of the gap when the gap exceeds
\* EPSILON, without passing the target and shrinking the gap, and leaves
\* it alone otherwise; ConvergeWithin update() calls after the targets
\* were last written the gap of such a dimension is within EPSILON.
C19_DampedConvergence ==
    /\ [](settled >= ConvergeWithin =>
             \A d \in SteadyDimensions : Abs(targetState[d] - current[d]) <= EPSILON)
    /\ [][selfOut'.op = "update" =>
            \A d \in DimensionSet :
               targetState'[d] = targetState[d] =>
                  LET gap == targetState[d] - current[d]
                      left == targetState'[d] - current'[d]
                  IN IF Abs(gap) > EPSILON
                     THEN /\ current'[d] = current[d] + Scaled(gap, DAMPING_PERCENT, 100)
                          /\ Abs(left) < Abs(gap)
                          /\ gap > 0 => left >= 0
                          /\ gap < 0 => left <= 0
                     ELSE current'[d] = current[d]
       ]_vars

\* valence brought from 0.6 to within epsilon of -1 by update() calls that
\* have stopped changing it
C19_Witness ==
    /\ selfOut.op = "update"
    /\ settled >= ConvergeWithin
    /\ targetState.valence = 0 - ONE
    /\ current.valence < 0
    /\ Abs(targetState.valence - current.valence) <= EPSILON

\* C20: get() returns the same object until an update() that returned true
\* (one that changed a value of current) or a restore() replaces it by a
\* new object holding the new current; nudge, setTarget, applyShift,
\* pushStream, evaluateDrives and an update() that returned false leave
\* the reference alone, and no snapshot object is written after it was
\* created.
C20_SnapshotIdentity ==
    [][selfOut'.op # "none" =>
         /\ cachedSnapshot' # cachedSnapshot <=>
               \/ selfOut'.op = "update" /\ selfOut'.ret[1]
               \/ selfOut'.op = "restore"
         /\ cachedSnapshot' # cachedSnapshot =>
               /\ cachedSnapshot' \notin DOMAIN snapshots
               /\ Get' = current'
         /\ \A r \in DOMAIN snapshots : snapshots'[r] = snapshots[r]
         /\ selfOut'.op = "update" => (selfOut'.ret[1] <=> current' # current)
    ]_vars

\* an update() that returned false and left alone the object that an
\* earlier update() had created
C20_Witness ==
    /\ selfOut.op = "update"
    /\ selfOut.ret = <<FALSE>>
    /\ cachedSnapshot = 2
    /\ Get = current
    /\ snapshots[1] = SELF_STATE_DEFAULTS
    /\ Get # SELF_STATE_DEFAULTS

\* C21: the stream holds the MAX_STREAM_SIZE most recently pushed entries
\* in push order (all of them while there are at most that many), the
\* array getStream() returns holds the same entries, and no call changes
\* an array that getStream() has returned before.
C21_StreamCapAndFrozenReads ==
    /\ [](/\ Len(stream) <= MAX_STREAM_SIZE
          /\ stream = LastN(pushed, MAX_STREAM_SIZE)
          /\ streamArrays[cachedStream] = stream)
    /\ [][\A r \in streamReads : streamArrays'[r] = streamArrays[r]]_vars

\* an entry has been evicted, and an array that was read before the last
\* push is still held while the stream has moved on
C21_Witness ==
    /\ selfOut.op = "pushStream"
    /\ Len(pushed) > MAX_STREAM_SIZE
    /\ pushed[1] # pushed[Len(pushed)]
    /\ \E r \in streamReads : r # cachedStream /\ streamArrays[r] # stream

\* the time of the last evaluation among evals that was not within the
\* cooldown of the one that passed before it; before any, the epoch
RECURSIVE LastPassed(_)
LastPassed(evals) ==
    IF evals = <<>> THEN 0 - DRIVE_EVAL_COOLDOWN
    ELSE LET before == LastPassed(SubSeq(evals, 1, Len(evals) - 1))
             at == evals[Len(evals)].at
         IN IF at - before < DRIVE_EVAL_COOLDOWN THEN before ELSE at

\* C22: an evaluateDrives() call made less than DRIVE_EVAL_COOLDOWN ms after
\* the previous call that passed the rate limit returns no pulses, any two
\* calls that return pulses are at least DRIVE_EVAL_COOLDOWN ms apart, and
\* no evaluateDrives() call changes current, target or the stream.
C22_DriveRateLimitAndPurity ==
    /\ [](\A i \in 1..Len(driveEvals) :
            /\ driveEvals[i].at - LastPassed(SubSeq(driveEvals, 1, i - 1))
                    < DRIVE_EVAL_COOLDOWN
                  => driveEvals[i].pulses = {}
            /\ \A j \in 1..(i - 1) :
                  driveEvals[i].pulses # {} /\ driveEvals[j].pulses # {}
                  => driveEvals[i].at - driveEvals[j].at >= DRIVE_EVAL_COOLDOWN)
    /\ [][selfOut'.op = "evaluateDrives"
            => UNCHANGED <<current, targetState, stream, streamArrays,
                           cachedStream>>]_vars

\* a call within the cooldown of a passing call returned nothing although
\* the state is past a threshold, and a later call returned pulses again
C22_Witness ==
    /\ selfOut.op = "evaluateDrives"
    /\ \E i, j, k \in 1..Len(driveEvals) :
          /\ i < j /\ j < k
          /\ driveEvals[i].pulses # {}
          /\ driveEvals[j].pulses = {}
          /\ driveEvals[j].at - driveEvals[i].at < DRIVE_EVAL_COOLDOWN
          /\ driveEvals[k].pulses # {}
          /\ driveEvals[k].at - driveEvals[i].at = DRIVE_EVAL_COOLDOWN
    /\ DrivesOf(current, now) # {}

\* the deliveries for which the bridge issued an external call
Accepted == {n \in DOMAIN deliveries : deliveries[n].accepted}

\* the external calls that have ended
EndedCalls == {k \in DOMAIN external : external[k].outcome # "pending"}

\* the signals a bridge has emitted as results
ResultSignals == {id \in DOMAIN payloads : payloads[id] \in {"result", "fallback"}}

\* C23: a ThoughtBridge has at most one external call outstanding; a
\* 'thought' delivered while one is outstanding causes no external call,
\* and it is not kept: every external call was issued in the delivery of
\* its request, and every result signal belongs to a call that has ended.
C23_ThoughtSingleFlight ==
    /\ \A i \in DOMAIN thoughtBridges :
          Cardinality(InFlight(external, "think", i)) <= 1
    /\ \A n \in DOMAIN deliveries :
          deliveries[n].inFlight > 0 => ~deliveries[n].accepted
    /\ Cardinality(Accepted) = Len(external)
    /\ \A k \in DOMAIN external :
          \E n \in Accepted : /\ deliveries[n].sig = external[k].request
                               /\ deliveries[n].bridge = external[k].bridge
                               /\ deliveries[n].at = external[k].at
    /\ ResultSignals = {external[k].result : k \in EndedCalls}

\* a thought was delivered while a call was outstanding; that call has
\* ended since and nothing is outstanding or pending
C23_Witness ==
    /\ \E n \in DOMAIN deliveries :
          /\ deliveries[n].inFlight = 1
          /\ deliveries[n].content # thoughtBridges[deliveries[n].bridge].lastProcessedContent
    /\ external # <<>>
    /\ EndedCalls = DOMAIN external
    /\ queue = <<>>

\* C25: when the external call of an accepted request ends, in any of the
\* four ways, the bridge emits exactly one signal: a 'claude-response' for
\* the arbiter and growth engines, whose payload is the fallback whenever
\* the call did not succeed; nothing is thrown, neither there nor in the
\* flush that delivered the request; and no ended call has a second result.
C25_ExactlyOneResultSignal ==
    /\ [][out'.op = "resolve" =>
            LET k == out'.ret[1]
                outcome == out'.ret[2]
                new == {q \in SeqRange(queue') : q.id > signalCounter}
            IN /\ signalCounter' = signalCounter + 1
               /\ Len(queue') = Len(queue) + 1
               /\ \E q \in new :
                     /\ new = {q}
                     /\ q.type = "claude-response"
                     /\ q.target = ResponseTarget
                     /\ PayloadOf(payloads', q.id) =
                           IF outcome = "ok" THEN "result" ELSE "fallback"
                     /\ external'[k].result = q.id
               /\ ~out'.threw]_vars
    /\ [](/\ out.op \in {"flush", "resolve"} =>
               ~out.threw /\ \A n \in DOMAIN out.calls : ~out.calls[n].threw
          /\ \A k \in DOMAIN external :
               IF k \in EndedCalls
               THEN /\ external[k].result \in ResultSignals
                    /\ \A j \in EndedCalls : j # k => external[j].result # external[k].result
               ELSE external[k].result = 0
          /\ Cardinality(ResultSignals) = Cardinality(EndedCalls))

\* a call has ended with a body that does not parse and the fallback is
\* pending, after an earlier call of the bridge has succeeded
C25_Witness ==
    /\ out.op = "resolve"
    /\ out.ret[2] = "unparseable"
    /\ PayloadOf(payloads, signalCounter) = "fallback"
    /\ \E k \in EndedCalls : external[k].outcome = "ok"

\* the bridge that issued the external call k has been destroyed
Destroyed(k) == thoughtBridges[external[k].bridge].subscriptionId \in unsubscribed

\* C26: when an external call ends whose bridge was destroyed while the
\* call was in flight, no signal is emitted onto the bus.
C26_ResultSwallowedAfterDestroy ==
    [][out'.op = "resolve" /\ Destroyed(out'.ret[1])
         => signalCounter' = signalCounter /\ queue' = queue]_vars

\* C27: an external call is outstanding for less than the deadline: once
\* the deadline has passed the bridge is not busy with it, and a thought
\* delivered from then on is not dropped because of it.
C27_DeadlineFreesBridge ==
    /\ \A k \in DOMAIN external :
          external[k].outcome = "pending" => now - external[k].at < BridgeDeadline
    /\ \A n \in DOMAIN deliveries :
          deliveries[n].inFlight > 0 =>
             \E k \in DOMAIN external :
                /\ external[k].bridge = deliveries[n].bridge
                /\ external[k].at <= deliveries[n].at
                /\ deliveries[n].at - external[k].at < BridgeDeadline

\* the last delivery before n for which the bridge of n issued a call, 0
\* if there is none
LastAccepted(n) ==
    LET earlier == {m \in Accepted : m < n /\ deliveries[m].bridge = deliveries[n].bridge}
    IN IF earlier = {} THEN 0 ELSE CHOOSE m \in earlier : \A j \in earlier : j <= m

\* the delivery n repeats the last accepted request within the window
Repeats(n) ==
    /\ LastAccepted(n) # 0
    /\ deliveries[n].content = deliveries[LastAccepted(n)].content
    /\ deliveries[n].at - deliveries[LastAccepted(n)].at < DEDUP_WINDOW

\* C28: a thought with the content of the last accepted request, delivered
\* less than DEDUP_WINDOW ms after that request was accepted, causes no
\* external call and no result signal; any other thought is accepted
\* whenever no call of the bridge is outstanding.
C28_Deduplication ==
    /\ \A n \in DOMAIN deliveries :
          /\ Repeats(n) => ~deliveries[n].accepted
          /\ ~Repeats(n) /\ deliveries[n].inFlight = 0 => deliveries[n].accepted
    /\ Cardinality(Accepted) = Len(external)
    /\ ResultSignals = {external[k].result : k \in EndedCalls}

\* a request was accepted, the same content was dropped within the window
\* although the bridge was idle, and was accepted again once the window
\* had passed
C28_Witness ==
    \E n1, n2, n3 \in DOMAIN deliveries :
       /\ n1 < n2 /\ n2 < n3
       /\ deliveries[n1].accepted
       /\ deliveries[n2].content = deliveries[n1].content
       /\ deliveries[n2].inFlight = 0 /\ ~deliveries[n2].accepted
       /\ deliveries[n3].content = deliveries[n1].content
       /\ deliveries[n3].at - deliveries[n1].at = DEDUP_WINDOW
       /\ deliveries[n3].accepted

\* C24: a BodyBridge has at most one execute call outstanding, and a
\* 'body-intent' delivered while one is outstanding causes no execute call.
C24_BodySingleFlight ==
    /\ \A i \in DOMAIN bodyBridges :
          Cardinality(InFlight(external, "execute", i)) <= 1
    /\ \A n \in DOMAIN deliveries :
          deliveries[n].kind = "execute" /\ deliveries[n].inFlight > 0
             => ~deliveries[n].accepted

\* the capability an intent of one of the simple types requires is null in
\* the manifest (speech counts as absent without tts)
Lacks(manifest, intent) ==
    CASE intent.type = "move" -> manifest.locomotion = "null"
      [] intent.type = "grasp" -> manifest.manipulation = "null"
      [] intent.type = "speak" -> ~manifest.tts
      [] intent.type = "express" -> manifest.expression = "null"
      [] OTHER -> FALSE

\* a tick of the gateway that processes exactly one signal, a 'body-intent'
HandlesOneIntent ==
    /\ out'.op = "tick"
    /\ gateway'.tickCount = gateway.tickCount + 1
    /\ Len(inbox["body-gateway"]) = 1
    /\ inbox["body-gateway"][1].type = "body-intent"

\* the tick has emitted a failed 'body-feedback'
EmitsFailedFeedback ==
    \E i \in DOMAIN queue' :
       /\ queue'[i].id > signalCounter
       /\ queue'[i].type = "body-feedback"
       /\ queue'[i].source = "body-gateway"
       /\ payloads'[queue'[i].id].status = "failed"

\* C30: when the gateway handles a 'body-intent' whose required capability
\* is absent from the cached manifest, or while no manifest is cached, it
\* does not throw and emits a failed 'body-feedback'; for a capability
\* mismatch it also pushes a "can't do that" entry to the stream and lowers
\* the confidence target of the self-state.
C30_CapabilityDegradation ==
    [][HandlesOneIntent =>
         LET intent == payloads[inbox["body-gateway"][1].id]
             mismatch == gateway.manifest # <<>> /\ Lacks(gateway.manifest[1], intent)
         IN /\ ~frame'.threw
            /\ (gateway.manifest = <<>> \/ mismatch) => EmitsFailedFeedback
            /\ mismatch => /\ pushed' = Append(pushed, "cant-do-that")
                           /\ targetState'.confidence < targetState.confidence]_vars

\* the inference calls issued so far
ThinkCalls == {k \in DOMAIN external : external[k].kind = "think"}

\* the arbiter has applied {valence: 0.1}: the valence target rose by 0.1,
\* clamped to 1, and no other target moved
ShiftedValenceOnce ==
    /\ Len(applied) = 1
    /\ DefinedKeys(applied[1].shift) = {"valence"}
    /\ applied[1].after =
          [applied[1].before EXCEPT
              !.valence = Clamp(applied[1].before.valence + 1000, 0 - ONE, ONE)]

\* flush() has written a 'voice-output' with the returned text to history
VoiceInHistory ==
    \E r \in recorded : r.type = "voice-output" /\ payloads[r.id].text = "ok"

Replied ==
    /\ Cardinality(ThinkCalls) = 1
    /\ ShiftedValenceOnce
    /\ VoiceInHistory

Received == [i \in DOMAIN proxy.downstream |-> proxy.downstream[i].event]

\* the place in the response of the last character before the separator
\* line or, without one, before the SHIFT line: the text and the line break
\* that ends it
LastOfText == Len(proxy.response.body) + 1

\* C31: however upstream splits the text into text_delta events, no part
\* of the trailing SHIFT block (the '---' separator line and the
\* 'SHIFT: {...}' line) is forwarded to the consumer.
C31_ShiftSuppressed ==
    proxy.response.block # <<>> =>
       \A i \in DOMAIN Received :
          Received[i].isTextDelta => Received[i].hi <= LastOfText

\* upstream sends an event in this step
Arrives == proxy'.upstream = proxy.upstream + 1

\* the event that arrives is no text delta, or a text delta that holds
\* nothing of the SHIFT block
ArrivesOrdinary ==
    /\ Arrives
    /\ \/ proxy'.sent = proxy.sent
       \/ proxy.response.block = <<>>
       \/ proxy'.sent <= LastOfText

\* the consumer receives in this step the event that arrives in it
ForwardedAtOnce ==
    /\ Len(proxy'.downstream) = Len(proxy.downstream) + 1
    /\ proxy'.downstream[Len(proxy'.downstream)].event.n = proxy'.upstream

\* C32: every upstream event that is not part of the trailing SHIFT block
\* (every non-text event, every text_delta of ordinary text, also text
\* that holds '---' or the word SHIFT) is forwarded, and is forwarded when
\* it arrives.
C32_PassThrough == [][ArrivesOrdinary => ForwardedAtOnce]_vars

\* C39: the events forwarded downstream are in the order in which they
\* arrived: no text_delta is emitted after an event that followed it
\* upstream.
C39_OrderPreserved ==
    \A i, j \in DOMAIN Received : i < j => Received[i].n < Received[j].n

ArbiterWaiting == mind.eng["arbiter"].waitingForClaude

\* something is under way that will end the wait: the 'thought' is still
\* queued, an inference call has not returned, or a 'claude-response' or
\* a 'safety-alert' is queued or in the arbiter's inbox
ResponseUnderWay ==
    \/ PendingCalls # {}
    \/ \E i \in DOMAIN queue :
          queue[i].type \in {"thought", "claude-response", "safety-alert"}
    \/ \E i \in DOMAIN inbox["arbiter"] :
          inbox["arbiter"][i].type \in {"claude-response", "safety-alert"}

\* C33: whenever the arbiter has emitted a 'thought' and waits, and every
\* inference call returns, a 'claude-response' or a 'safety-alert' reaches
\* it and it leaves the waiting state: in no reachable state does the
\* arbiter wait with nothing under way that could end the wait.
C33_ArbiterNeverHangs == ArbiterWaiting => ResponseUnderWay

\* the ids process() was handed in the calls of loop() listed in f
ProcessedIn(f) ==
    UNION {{f.steps[k].batch[j] : j \in DOMAIN f.steps[k].batch} :
             k \in {n \in DOMAIN f.steps : f.steps[n].kind = "process"}}

\* C34: a signal emitted by an engine during the tick pass of frame N is
\* passed to no engine's process() during frame N: every batch a process()
\* receives in a frame is made of signals that were in that engine's inbox
\* when the frame began, so each hop from engine to engine costs a frame.
C34_OneHopPerFrame ==
    [][LoopRan =>
         \A k \in DOMAIN frame'.steps :
            frame'.steps[k].kind = "process" =>
               \A j \in DOMAIN frame'.steps[k].batch :
                  /\ frame'.steps[k].batch[j] <= signalCounter
                  /\ \E i \in DOMAIN inbox[frame'.steps[k].engine] :
                        inbox[frame'.steps[k].engine][i].id = frame'.steps[k].batch[j]
    ]_vars

\* a frame in which an engine's process() emitted a signal while a later
\* engine of the same tick pass ran its process() without that signal, which
\* the flush of the frame then put into the inboxes
C34_Witness ==
    /\ frame.op = "frame"
    /\ \E i \in DOMAIN out.ret, k1, k2 \in DOMAIN frame.steps :
          /\ k1 < k2
          /\ frame.steps[k1].kind = "process"
          /\ frame.steps[k1].engine = out.ret[i].source
          /\ frame.steps[k2].kind = "process"
          /\ frame.steps[k2].engine # out.ret[i].source
          /\ out.ret[i].id \notin ProcessedIn(frame)
          /\ \E j \in DOMAIN inbox[frame.steps[k2].engine] :
                inbox[frame.steps[k2].engine][j].id = out.ret[i].id

\* non-increasing priority, equal priorities in the order of emission
SortedQueue(q) ==
    \A i, j \in DOMAIN q :
       i < j => \/ q[i].priority > q[j].priority
                \/ /\ q[i].priority = q[j].priority
                   /\ q[i].id < q[j].id

\* C35: after every emit() and every flush() the pending queue is sorted by
\* non-increasing priority, signals of equal priority in the order they
\* were emitted; after flush() returns the pending queue is empty.
C35_QueueInvariant ==
    [][/\ SortedQueue(queue')
       /\ out'.op = "emit" =>
             /\ Len(queue') = Len(queue) + 1
             /\ Ids(queue') = Ids(queue) \cup {signalCounter'}
       /\ out'.op = "flush" => queue' = <<>>
    ]_vars

\* three signals pending, the second emitted ahead of the first (higher
\* priority), the third behind its equal
C35_Witness ==
    /\ out.op = "emit"
    /\ Len(queue) = 3
    /\ <<queue[1].id, queue[2].id, queue[3].id>> = <<2, 1, 3>>
    /\ queue[1].priority > queue[2].priority
    /\ queue[2].priority = queue[3].priority

\* the arbiter deferred a decision and has not emitted a 'thought' since
DeferredUnanswered ==
    /\ mind.eng["arbiter"].energyDeferralCount > 0
    /\ ~ArbiterWaiting
    /\ ~\E r \in recorded : r.type = "thought"

\* C36: a decision the arbiter defers for low energy stays pending, so
\* that a 'thought' for it is emitted on a later tick; the deferral never
\* discards a user input.
C36_DeferredStaysPending ==
    DeferredUnanswered => mind.eng["arbiter"].pendingDecisions # <<>>

TerminalFeedbacks == {n \in DOMAIN polled : polled[n].type = "body-feedback"}

\* polling emits at most one terminal 'body-feedback' per task
OneTerminalFeedback ==
    \A m, n \in TerminalFeedbacks :
       (polled[m].bridge = polled[n].bridge /\ polled[m].task = polled[n].task)
          => m = n

\* after its terminal feedback a task is not tracked and no poll emits
\* for it
SilentOnceTerminal ==
    \A m \in TerminalFeedbacks :
       /\ \A n \in DOMAIN polled :
             (n > m /\ polled[n].bridge = polled[m].bridge)
                => polled[n].task # polled[m].task
       /\ polled[m].task \notin bodyBridges[polled[m].bridge].activeTasks

\* no poll of a destroyed bridge emits
SilentOnceDestroyed == \A n \in DOMAIN polled : ~polled[n].destroyed

\* C38: for every task a BodyBridge tracks, polling emits at most one
\* terminal 'body-feedback', overlapping polls included; after it the task
\* is not tracked and no further 'body-task-update' is emitted for it; and
\* after destroy() no poll emits any signal.
C38_TaskTracking ==
    /\ OneTerminalFeedback
    /\ SilentOnceTerminal
    /\ SilentOnceDestroyed

\* C40: after any sequence of accepted requests and completions the
\* conversationHistory of a ThoughtBridge holds at most 40 entries, and the
\* history passed to the external call never includes the current user
\* message.
C40_HistoryBound ==
    /\ \A i \in DOMAIN thoughtBridges :
          Len(thoughtBridges[i].conversationHistory) <= HISTORY_LIMIT
    /\ \A n \in DOMAIN deliveries : ~deliveries[n].passedCurrent

====
